---- MODULE Spec2Model ----
(***************************************************************************)
(* Model of the on-premise RFID pipeline (rainrental/onprem).              *)
(*                                                                         *)
(* This part models the rfid-processor's Ingestor: LocationStateService,   *)
(* MqttClient.processTagInventory, the Deduplicator with its setTimeout    *)
(* timers, and the push onto the RFID list read by the gateway.            *)
(*                                                                         *)
(* Time is counted in minutes: the Deduplicator arms its timers with       *)
(* intervalMinutes * 60 * 1000 ms, i.e. intervalMinutes units of `now`.    *)
(* Any number of messages can be processed within one unit of time.        *)
(***************************************************************************)
EXTENDS Integers, Sequences, FiniteSets, TLC

\* ----- bounds of the model
MaxTime == 3
MaxMsgs == 3
MaxQueueSize == 1     \* REDIS_MAX_QUEUE_SIZE the processes are started with
MaxClock == 20400     \* ms of retry-queue time explored with a single item
ShortClock == 6200    \* ms of retry-queue time explored with two concurrent items
MaxOutages == 2       \* outages of the durable store explored
MaxWrites == 7        \* write attempts per operation explored in the gateway
MaxCfgEvents == 3     \* writes of the location document explored
MaxRestarts == 2      \* restarts of the gateway process explored
MaxLoads == 2         \* loadFromGateway calls in flight at once, where time is unbounded
MaxTokens == 4        \* custom tokens issued before scheduled refreshes stop being followed

\* ----- program constants
DefaultInterval == 2
DeduplicatorInitialInterval == 2
ConfigRefreshInterval == 5
NoUpdate == -1

Hosts == {"h1", "h2"}
Tids == {"t1"}
NoTid == "none"

\* the contents of config/hostname-groups.json the processor may be started with
HostnameGroupFiles ==
  { [deduplicationGroup |-> "group",
     groups |-> << [name |-> "g1", hostnames |-> {"h1"}] >>] }

\* deduplicateInterval values a location document may carry (minutes)
Intervals == {1, 2}


\* location configurations the gateway may answer with (after the ?? defaults)
GatewayConfigs ==
  [deduplicate : BOOLEAN, deduplicateInterval : Intervals, reporting : BOOLEAN]

VARIABLES
  now,              \* wall clock, minutes
  phase,            \* "constructed" | "running"
  isShuttingDown,   \* TagProcessingServer.isShuttingDown
  hostnameGroups,   \* HostnameGroupsConfig.config
  state,            \* LocationStateService.state
  lastConfigUpdate, \* LocationStateService.lastConfigUpdate (NoUpdate = null)
  loads,            \* loadFromGateway calls in flight, started by processTagInventory
  intervalMinutes,  \* Deduplicator.intervalMinutes
  cache,            \* Deduplicator.cache : key -> [event, lastSeen, timer]
  timers,           \* Deduplicator.timers : key -> timer handle
  pending,          \* the runtime's armed setTimeout timers: [id, key, fireAt]
  timerSeq,         \* number of setTimeout calls so far (handles are 1..timerSeq)
  rfidQueue,        \* the list rfid:processor:queue:tagReads, head = last LPUSH
  messageCounter,   \* MqttClient.messageCounter
  msgSeq,           \* number of broker messages handled so far
  redisUp,          \* is the durable store reachable (a push throws when it is not)
  win,              \* history: per key, what happened in its current/last window
  lastMsg,          \* history: the last processed tagInventory message
  lastFire,         \* history: the last timer callback
  cleanedIds,       \* history: handles that were armed when cleanup() was called
  lastCleanup,      \* history: what the last cleanup() left behind
  lastAccepted,     \* history: the state stored by the last successful loadFromGateway
  lastBad           \* history: the last malformed message handleMessage received

\* The retry queues behind the Ingestor: the processor's RedisRetryQueue and the
\* gateway's RedisService. Their clock counts milliseconds.
VARIABLES
  side,             \* which process is observed: "ingestor" | "processor" | "gateway"
  clock,            \* Date.now(), ms
  storeUp,          \* is the durable store (Redis) reachable
  outages,          \* number of outages of the durable store so far
  zset,             \* firestore:retry:queue with the item payloads: key -> item
  memoryFallback,   \* RedisRetryQueue.memoryFallback : key -> item
  isProcessing,     \* RedisRetryQueue.isProcessing / RedisService.isProcessing
  calls,            \* addToRetryQueue calls in flight: key -> position
  loops,            \* processRetryQueue chains and startProcessing timers
  tries,            \* history: per item, write attempts started so far
  lastEnq,          \* history: the last addToRetryQueue call that returned
  lastAttempt,      \* history: the last write attempt that finished
  workload,         \* the items handed to the queue and the time explored
  gwStaging,        \* gateway: the list rfid:processor:queue:tagReads
  gwRetry,          \* gateway: the list firebase:retry:queue of retryItems
  gwJobs,           \* gateway: writes in flight
  gwBusy,           \* history: per operation, writes in flight
  gwTries,          \* history: per operation, writes started so far
  gwFate,           \* history: per operation, "written" | "discarded" | "lost"
  lastGw            \* history: the last gateway write that settled

\* The gateway's services beside the queues: ConfigManager with its snapshot
\* listener, the location-config endpoints of the server and what they read.
VARIABLES
  cachedConfig,     \* ConfigManager.cachedConfig (NoData = null)
  lastUpdateTime,   \* ConfigManager.lastUpdateTime (NoUpdate = null)
  locationDoc,      \* the location document in the remote store (NoData = none)
  listener,         \* the onSnapshot listener: "idle" | "due" (a snapshot to deliver) | "down"
  isAuthenticated,  \* authManager.isUserAuthenticated()
  cfgEvents,        \* number of snapshot and request events so far (Date stand-in)
  lastCfg,          \* history: the last handleConfigUpdate call
  lastReq           \* history: the last request to a location-config endpoint

VARIABLES
  tokenFile,        \* data/.auth-token.json: NoFile, CorruptFile or a saved state
  currentToken,     \* AuthManager.currentToken (NoToken = null)
  currentUser,      \* auth.currentUser !== null
  authStep,         \* position of the gateway's startup authentication
  tokenSeq,         \* custom tokens issued so far
  restarts,         \* process restarts so far
  refreshTimer,     \* AuthManager.refreshTimer: a timeout handle (NoTimer = null)
  armedRefresh,     \* the refresh timeouts that are armed
  lastAuth          \* history: what this startup did with the persisted state

VARIABLES
  gwPhase           \* the observed process: "running" | "closed" (Redis quit called) | "exited"

dedupVars == <<intervalMinutes, cache, timers, pending, timerSeq>>
histVars == <<win, lastMsg, lastFire, cleanedIds, lastCleanup>>
ingestVars == <<now, phase, isShuttingDown, hostnameGroups, state, lastConfigUpdate, loads,
                intervalMinutes, cache, timers, pending, timerSeq, rfidQueue,
                messageCounter, msgSeq, redisUp, win, lastMsg, lastFire, cleanedIds,
                lastCleanup, lastAccepted>>
retryVars == <<clock, storeUp, outages, zset, memoryFallback, isProcessing, calls, loops,
               tries, lastEnq, lastAttempt>>
gatewayVars == <<gwStaging, gwRetry, gwJobs, gwBusy, gwTries, gwFate, lastGw>>
configVars == <<cachedConfig, lastUpdateTime, locationDoc, listener, isAuthenticated,
                cfgEvents, lastCfg, lastReq>>
authVars == <<tokenFile, currentToken, currentUser, authStep, tokenSeq, restarts, refreshTimer,
              armedRefresh, lastAuth>>
serviceVars == <<configVars, authVars>>
inputVars == <<lastBad>>
shutdownVars == <<gwPhase>>
queueVars == <<side, workload, retryVars, gatewayVars, serviceVars, inputVars, shutdownVars>>
beyondRetry == <<ingestVars, gatewayVars, side, workload, serviceVars, inputVars, shutdownVars>>
beyondGateway == <<ingestVars, side, workload, clock, outages, zset, memoryFallback, calls,
                   loops, tries, lastEnq, lastAttempt, serviceVars, inputVars, shutdownVars>>
beyondServices == <<ingestVars, side, workload, retryVars, gatewayVars, inputVars, authVars,
                    shutdownVars>>
beyondAuth == <<ingestVars, side, workload, retryVars, gatewayVars, inputVars, configVars,
                shutdownVars>>
vars == <<ingestVars, queueVars>>

\* ----- JS Map helpers
EmptyMap == [x \in {} |-> 0]
MapSet(m, k, v) == [x \in (DOMAIN m) \cup {k} |-> IF x = k THEN v ELSE m[x]]
MapDelete(m, k) == [x \in (DOMAIN m) \ {k} |-> m[x]]

\* ----- HostnameGroupsConfig.getGroupForHostname
RECURSIVE FirstGroupFrom(_, _, _)
FirstGroupFrom(groups, hostname, i) ==
  IF i > Len(groups) THEN hostname
  ELSE IF hostname \in groups[i].hostnames THEN groups[i].name
  ELSE FirstGroupFrom(groups, hostname, i + 1)

GetGroupForHostnameIgnoringMode(cfg, hostname) ==
  FirstGroupFrom(cfg.groups, hostname, 1)
GetGroupForHostname(cfg, hostname) ==
  IF cfg.deduplicationGroup = "hostname" THEN hostname
  ELSE FirstGroupFrom(cfg.groups, hostname, 1)

\* MqttClient.getDeduplicationKey: `${groupName}:${tidHex}` (a pair here)
GetDeduplicationKey(cfg, hostname, tidHex) ==
  <<GetGroupForHostname(cfg, hostname), tidHex>>

GroupNames == {"g1"}
AllKeys == (Hosts \cup GroupNames) \X Tids

\* ----- LocationStateService
ConstructorState ==
  [deduplicate |-> FALSE, deduplicateInterval |-> DefaultInterval, reporting |-> FALSE]

DefaultState ==
  [deduplicate |-> FALSE, deduplicateInterval |-> DefaultInterval, reporting |-> TRUE]

UpdateStateFromConfig(gatewayConfig) ==
  [deduplicate |-> gatewayConfig.deduplicate,
   deduplicateInterval |-> gatewayConfig.deduplicateInterval,
   reporting |-> gatewayConfig.reporting]

\* refreshConfiguration: shouldRefresh
ShouldRefresh(last, t) ==
  last = NoUpdate \/ (t - last) > ConfigRefreshInterval

\* ----- Deduplicator, as transformers of d = [intervalMinutes, cache, timers, pending, timerSeq]
Dedup ==
  [intervalMinutes |-> intervalMinutes, cache |-> cache, timers |-> timers,
   pending |-> pending, timerSeq |-> timerSeq]

\* clearTimeout(handle)
ClearTimeout(pend, id) == {t \in pend : t.id # id}

\* scheduleReport(key): setTimeout(..., intervalMinutes * 60 * 1000); timers.set(key, timer)
ScheduleReport(d, key, t) ==
  LET id == d.timerSeq + 1 IN
  [d EXCEPT !.timerSeq = id,
            !.pending = @ \cup {[id |-> id, key |-> key, fireAt |-> t + d.intervalMinutes]},
            !.timers = MapSet(@, key, id)]

\* shouldReport: the value returned
ShouldReportResultAlwaysTrue(d, key) == TRUE
ShouldReportResult(d, key) == key \notin DOMAIN d.cache

\* shouldReport, hit path: the cached entry after the call
HitEntryKeepFirst(entry, tagDocument, timestamp) ==
  [entry EXCEPT !.lastSeen = timestamp]
HitEntry(entry, tagDocument, timestamp) ==
  [entry EXCEPT !.event = tagDocument, !.lastSeen = timestamp]

\* shouldReport: the Deduplicator after the call
ShouldReportSliding(d, timestamp, key, tagDocument, t) ==
  LET d0 == IF key \in DOMAIN d.cache
            THEN [d EXCEPT !.pending = ClearTimeout(@, d.timers[key])]
            ELSE d
      d1 == ScheduleReport(d0, key, t)
  IN [d1 EXCEPT !.cache = MapSet(@, key,
        [event |-> tagDocument, lastSeen |-> timestamp, timer |-> d1.timerSeq])]
ShouldReport(d, timestamp, key, tagDocument, t) ==
  IF key \in DOMAIN d.cache
  THEN [d EXCEPT !.cache[key] = HitEntry(@, tagDocument, timestamp)]
  ELSE LET d1 == ScheduleReport(d, key, t)
       IN [d1 EXCEPT !.cache = MapSet(@, key,
             [event |-> tagDocument, lastSeen |-> timestamp, timer |-> d1.timerSeq])]

\* reportCached(key): is the report callback invoked
ReportCachedCallsNoCallback(d, key) == FALSE
ReportCachedCallsLater(d, key) == FALSE
ReportCachedCalls(d, key) == key \in DOMAIN d.cache

\* reportCached(key): the Deduplicator as the report callback finds it; onReport is
\* called first, the entry and its handle are deleted after it returns
ReportCachedAtCallback(d, key) == d

\* reportCached(key): the Deduplicator after the call
ReportCachedKeepEntry(d, key) ==
  [d EXCEPT !.timers = MapDelete(@, key)]
ReportCachedKeepTimer(d, key) ==
  [d EXCEPT !.cache = MapDelete(@, key)]
ReportCached(d, key) ==
  IF key \notin DOMAIN d.cache
  THEN [d EXCEPT !.timers = MapDelete(@, key)]
  ELSE [d EXCEPT !.cache = MapDelete(@, key), !.timers = MapDelete(@, key)]

\* updateInterval: the loop over this.timers.entries(); handles are opaque, so the
\* order in which the keys are visited only decides which handle number each gets
RECURSIVE RescheduleAll(_, _, _)
RescheduleAll(d, keys, t) ==
  IF keys = {} THEN d
  ELSE LET key == CHOOSE k \in keys : TRUE
           d0 == [d EXCEPT !.pending = ClearTimeout(@, d.timers[key])]
           d1 == IF key \in DOMAIN d0.cache
                 THEN LET s == ScheduleReport(d0, key, t)
                      IN [s EXCEPT !.cache[key].timer = s.timerSeq]
                 ELSE d0
       IN RescheduleAll(d1, keys \ {key}, t)

RECURSIVE RescheduleAllNoClear(_, _, _)
RescheduleAllNoClear(d, keys, t) ==
  IF keys = {} THEN d
  ELSE LET key == CHOOSE k \in keys : TRUE
           d1 == IF key \in DOMAIN d.cache
                 THEN LET s == ScheduleReport(d, key, t)
                      IN [s EXCEPT !.cache[key].timer = s.timerSeq]
                 ELSE d
       IN RescheduleAllNoClear(d1, keys \ {key}, t)

UpdateIntervalNoClear(d, newIntervalMinutes, t) ==
  IF newIntervalMinutes = d.intervalMinutes THEN d
  ELSE RescheduleAllNoClear([d EXCEPT !.intervalMinutes = newIntervalMinutes],
                            DOMAIN d.timers, t)
UpdateIntervalAlwaysRearms(d, newIntervalMinutes, t) ==
  RescheduleAll([d EXCEPT !.intervalMinutes = newIntervalMinutes], DOMAIN d.timers, t)
UpdateIntervalNewKeysOnly(d, newIntervalMinutes, t) ==
  [d EXCEPT !.intervalMinutes = newIntervalMinutes]
UpdateInterval(d, newIntervalMinutes, t) ==
  IF newIntervalMinutes = d.intervalMinutes THEN d
  ELSE RescheduleAll([d EXCEPT !.intervalMinutes = newIntervalMinutes],
                     DOMAIN d.timers, t)

\* cleanup()
CleanupNoClear(d) ==
  [d EXCEPT !.cache = EmptyMap, !.timers = EmptyMap]
Cleanup(d) ==
  [d EXCEPT !.pending = {t \in @ : \A k \in DOMAIN d.timers : t.id # d.timers[k]},
            !.cache = EmptyMap,
            !.timers = EmptyMap]

\* getStats()
GetStats ==
  [activeKeys |-> Cardinality(DOMAIN cache), activeTimers |-> Cardinality(DOMAIN timers)]

SetDedup(d) ==
  /\ intervalMinutes' = d.intervalMinutes
  /\ cache' = d.cache
  /\ timers' = d.timers
  /\ pending' = d.pending
  /\ timerSeq' = d.timerSeq

\* ----- MqttClient
\* createTagDocument: seq stands for the fields that differ from message to message
CreateTagDocument(hostname, tidHex, seq) ==
  [tidHex |-> tidHex, hostname |-> hostname, seq |-> seq]

\* processTagInventory: in !state.deduplicate || deduplicator.shouldReport(...) the
\* right operand of || is evaluated only when state.deduplicate is true
ConsultsDeduplicatorAlways(deduplicate) == TRUE
ConsultsDeduplicator(deduplicate) == deduplicate

\* processTagInventory: shouldReport = !state.deduplicate || deduplicator.shouldReport(...)
ShouldForward(deduplicate, dedupResult) == ~deduplicate \/ dedupResult

\* processTagInventory: if (shouldReport && state.reporting) queueTagEvent(...)
ImmediateEnqueueIgnoringReporting(shouldReport, reporting) == shouldReport
ImmediateEnqueue(shouldReport, reporting) == shouldReport /\ reporting

\* setupDeduplicator: the report callback calls queueTagEvent whatever state.reporting is
DelayedEnqueueGated(reporting) == reporting
DelayedEnqueue(reporting) == TRUE

\* queueTagEvent: queueData handed to addToRfidQueue('tagReads', ...)
QueueData(tagId, tagDocument) ==
  [type |-> "tagRead", tagId |-> tagId, tagDocument |-> tagDocument]

\* addToRfidQueue: redis.lpush; a failing push is caught and answers false
AddToRfidQueue(queue, queueData, pushOk) ==
  IF pushOk THEN <<queueData>> \o queue ELSE queue

\* ----- history bookkeeping (not program state)
\* the reader whose cached event a suppressed observation replaces (NoTid: none)
MergedInto(d, key, consulted) ==
  IF consulted /\ key \in DOMAIN d.cache THEN d.cache[key].event.hostname ELSE NoTid

B(b) == IF b THEN 1 ELSE 0

NoWindow ==
  [admits |-> 0, falses |-> 0, hits |-> 0, reports |-> 0, lastObs |-> 0,
   changed |-> FALSE, larger |-> FALSE, changedAt |-> 0, dueAt |-> 0,
   immediates |-> 0, quiet |-> FALSE, delayed |-> 0]

NoMsg ==
  [seq |-> 0, hasTid |-> FALSE, key |-> <<"h1", "t1">>,
   doc |-> [tidHex |-> NoTid, hostname |-> "h1", seq |-> 0], deduplicate |-> FALSE,
   reporting |-> FALSE, wasCached |-> FALSE, srCalled |-> FALSE, srResult |-> FALSE,
   forwarded |-> FALSE, queued |-> FALSE, pushOk |-> FALSE, qBefore |-> << >>,
   qAfter |-> << >>, timersBefore |-> {}, timersAfter |-> {}, cachedAfter |-> FALSE,
   mergedInto |-> NoTid]

NoBad == [seq |-> 0, kind |-> "none", recorded |-> FALSE]

NoCleanup ==
  [calls |-> 0, hadKeys |-> {}, activeKeys |-> 0, activeTimers |-> 0, armed |-> {}]

NoFire ==
  [id |-> 0, key |-> <<"h1", "t1">>, called |-> FALSE,
   event |-> [tidHex |-> NoTid, hostname |-> "h1", seq |-> 0], expected |-> 0,
   at |-> 0, dueAt |-> 0, changed |-> FALSE, hits |-> 0, reporting |-> FALSE,
   enqueued |-> FALSE, pushOk |-> FALSE, qBefore |-> << >>, qAfter |-> << >>,
   cachedAtCall |-> FALSE, timerAtCall |-> FALSE, missAtCall |-> FALSE,
   missAfter |-> FALSE]

\* the window record of `key` after a shouldReport call
WinAfterCall(w, wasCached, result, seq, queued, reporting, t, interval) ==
  IF ~wasCached
  THEN [NoWindow EXCEPT !.admits = B(result), !.falses = B(~result), !.lastObs = seq,
                        !.dueAt = t + interval, !.immediates = B(queued),
                        !.quiet = ~reporting]
  ELSE [w EXCEPT !.admits = @ + B(result), !.falses = @ + B(~result), !.hits = @ + 1,
                 !.lastObs = seq, !.immediates = @ + B(queued),
                 !.quiet = @ /\ ~reporting]

\* the window records after updateInterval took the Deduplicator from d0 to d1
WinAfterUpdate(w, d0, d1, t) ==
  [k \in AllKeys |->
     IF d1.intervalMinutes # d0.intervalMinutes /\ k \in DOMAIN d0.cache
     THEN [w[k] EXCEPT !.changed = TRUE, !.changedAt = t,
                       !.larger = @ \/ d1.intervalMinutes > d0.intervalMinutes]
     ELSE w[k]]

TimersOf(pend, key) == {t \in pend : t.key = key}

\* ----- the retry queues before anything was handed to them
NoEnq ==
  [key |-> "none", returned |-> FALSE, accepted |-> FALSE, sizeChecked |-> FALSE,
   totalAtCheck |-> 0, memory |-> "ok", totalAtStore |-> 0, fallback |-> FALSE]

NoAttempt ==
  [key |-> "none", isMemory |-> FALSE, outcome |-> "none", number |-> 0,
   attemptsBefore |-> 0, recorded |-> FALSE, removed |-> FALSE, attemptsAfter |-> 0,
   nextRetryAfter |-> 0, at |-> 0]

ItemKeys == {"a", "b"}

\* what the queues are given: one item watched for long, or two items at once
Workloads ==
  {[keys |-> {"a"}, horizon |-> MaxClock], [keys |-> ItemKeys, horizon |-> ShortClock]}
NoWorkload == [keys |-> {}, horizon |-> 0]

NoGw ==
  [op |-> "none", kind |-> "none", outcome |-> "none", attempts |-> 0,
   requeued |-> FALSE, requeuedAttempts |-> 0, pushFailed |-> FALSE]

GatewayAtRest(staged) ==
  /\ gwStaging = staged
  /\ gwRetry = << >>
  /\ gwJobs = {}
  /\ gwBusy = [k \in ItemKeys |-> 0]
  /\ gwTries = [k \in ItemKeys |-> 0]
  /\ gwFate = [k \in ItemKeys |-> "none"]
  /\ lastGw = NoGw
  /\ gwPhase = "running"

\* ----- the gateway's ConfigManager and endpoints before anything happened
NoData == [x \in {} |-> 0]

\* location documents: two fields of hasRelevantChanges' list (one of them a nested
\* object), the reporting flag, and a field outside every list; a document and the
\* documents that differ from it in one field
BaseDoc == [deduplicate |-> FALSE, reporting |-> FALSE, update_window |-> "w1",
            last_update |-> "d1"]

LocationDocs ==
  {BaseDoc, [BaseDoc EXCEPT !.deduplicate = TRUE], [BaseDoc EXCEPT !.reporting = TRUE],
   [BaseDoc EXCEPT !.update_window = "w2"], [BaseDoc EXCEPT !.last_update = "d2"]}

NoCfg ==
  [handled |-> FALSE, oldData |-> NoData, newData |-> NoData, replaced |-> FALSE,
   timeBefore |-> NoUpdate, timeAfter |-> NoUpdate, cachedAfter |-> NoData,
   cause |-> "none"]

NoReq ==
  [method |-> "none", hasCompanyId |-> FALSE, authenticated |-> FALSE,
   docExists |-> FALSE, fromCache |-> FALSE, failed |-> FALSE, status |-> 0,
   requested |-> "none", servedFrom |-> "none"]

ConfigAtRest ==
  /\ cachedConfig = NoData
  /\ lastUpdateTime = NoUpdate
  /\ locationDoc = NoData
  /\ listener = "idle"
  /\ isAuthenticated = FALSE
  /\ cfgEvents = 0
  /\ lastCfg = NoCfg
  /\ lastReq = NoReq

\* ----- the gateway's AuthManager before the process was ever started
NoFile == [kind |-> "none", token |-> 0, age |-> 0]
CorruptFile == [kind |-> "corrupt", token |-> 0, age |-> 0]
NoToken == 0
NoTimer == 0

NoAuth ==
  [loaded |-> FALSE, ageAtLoad |-> 0, hadFile |-> FALSE, storedTried |-> FALSE,
   storedFailed |-> "none", exchanged |-> FALSE, fileAtExchange |-> NoFile,
   tokenAtLoad |-> NoToken, outcome |-> "none"]

AuthAtRest ==
  /\ tokenFile = NoFile
  /\ currentToken = NoToken
  /\ currentUser = FALSE
  /\ authStep = "boot"
  /\ tokenSeq = 0
  /\ restarts = 0
  /\ refreshTimer = NoTimer
  /\ armedRefresh = {}
  /\ lastAuth = NoAuth

ServicesAtRest == ConfigAtRest /\ AuthAtRest

RetryAtRest ==
  /\ clock = 0
  /\ storeUp = TRUE
  /\ outages = 0
  /\ zset = EmptyMap
  /\ memoryFallback = EmptyMap
  /\ isProcessing = FALSE
  /\ calls = EmptyMap
  /\ loops = {}
  /\ tries = [k \in ItemKeys |-> 0]
  /\ lastEnq = NoEnq
  /\ lastAttempt = NoAttempt

\* ----- actions
IngestorAtRest ==
  /\ now = 0
  /\ phase = "constructed"
  /\ isShuttingDown = FALSE
  /\ state = ConstructorState
  /\ lastConfigUpdate = NoUpdate
  /\ loads = 0
  /\ intervalMinutes = DeduplicatorInitialInterval
  /\ cache = EmptyMap
  /\ timers = EmptyMap
  /\ pending = {}
  /\ timerSeq = 0
  /\ rfidQueue = << >>
  /\ messageCounter = 0
  /\ msgSeq = 0
  /\ redisUp = TRUE
  /\ win = [k \in AllKeys |-> NoWindow]
  /\ lastMsg = NoMsg
  /\ lastFire = NoFire
  /\ cleanedIds = {}
  /\ lastCleanup = NoCleanup
  /\ lastAccepted = NoData
  /\ lastBad = NoBad

IngestorInit ==
  /\ IngestorAtRest
  /\ hostnameGroups \in HostnameGroupFiles

Init ==
  /\ IngestorInit
  /\ side = "ingestor"
  /\ workload = NoWorkload
  /\ RetryAtRest
  /\ GatewayAtRest(<< >>)
  /\ ServicesAtRest

\* a reader that takes the reporting flag from another object than the one it read
GetStateMixed(current) == [current EXCEPT !.reporting = DefaultState.reporting]

\* getState: the state object as it is at the time of the call
GetState(current) == current

\* loadFromGateway settles: success stores the configuration, failure the default state
LoadOutcome(ok, cfg) == IF ok THEN UpdateStateFromConfig(cfg) ELSE DefaultState

\* TagProcessingServer.start: await loadFromGateway(), then mqttClient.initialize()
\* whose setupDeduplicator calls updateInterval(state.deduplicateInterval)
Start ==
  /\ phase = "constructed"
  /\ \E ok \in BOOLEAN, cfg \in GatewayConfigs :
       LET st == LoadOutcome(ok, cfg)
           d1 == UpdateInterval(Dedup, st.deduplicateInterval, now)
       IN /\ state' = st
          /\ lastConfigUpdate' = IF ok THEN now ELSE lastConfigUpdate
          /\ lastAccepted' = IF ok THEN st ELSE lastAccepted
          /\ SetDedup(d1)
          /\ win' = WinAfterUpdate(win, Dedup, d1, now)
  /\ phase' = "running"
  /\ UNCHANGED <<now, isShuttingDown, hostnameGroups, loads, rfidQueue, messageCounter,
                 msgSeq, redisUp, lastMsg, lastFire, cleanedIds, lastCleanup>>
  /\ UNCHANGED queueVars

\* handleMessage -> processTagInventory for a message that carries a tidHex, up to and
\* including the push it issues and the .then() of an immediately resolved refresh
ProcessTagInventory ==
  /\ phase = "running"
  /\ ~isShuttingDown
  /\ msgSeq < MaxMsgs
  /\ \E hostname \in Hosts, tidHex \in Tids :
       LET seq == msgSeq + 1
           pushOk == redisUp
           tagDocument == CreateTagDocument(hostname, tidHex, seq)
           refresh == ShouldRefresh(lastConfigUpdate, now)
           st == GetState(state)
           key == GetDeduplicationKey(hostnameGroups, hostname, tidHex)
           d0 == Dedup
           wasCached == key \in DOMAIN d0.cache
           srCalled == ConsultsDeduplicator(st.deduplicate)
           srResult == srCalled /\ ShouldReportResult(d0, key)
           d1 == IF srCalled THEN ShouldReport(d0, now, key, tagDocument, now) ELSE d0
           shouldReport == ShouldForward(st.deduplicate, srResult)
           queued == ImmediateEnqueue(shouldReport, st.reporting)
           q1 == IF queued
                 THEN AddToRfidQueue(rfidQueue, QueueData(tidHex, tagDocument), pushOk)
                 ELSE rfidQueue
           d2 == IF refresh THEN d1 ELSE UpdateInterval(d1, st.deduplicateInterval, now)
           w1 == IF srCalled
                 THEN [win EXCEPT ![key] = WinAfterCall(@, wasCached, srResult, seq, queued,
                                                        st.reporting, now, d0.intervalMinutes)]
                 ELSE IF wasCached
                      THEN [win EXCEPT ![key].immediates = @ + B(queued), ![key].quiet = FALSE]
                      ELSE win
       IN /\ loads' = IF refresh THEN loads + 1 ELSE loads
          /\ SetDedup(d2)
          /\ rfidQueue' = q1
          /\ messageCounter' = IF queued /\ pushOk THEN messageCounter + 1 ELSE messageCounter
          /\ win' = WinAfterUpdate(w1, d1, d2, now)
          /\ lastMsg' = [seq |-> seq, hasTid |-> TRUE, key |-> key, doc |-> tagDocument,
                         deduplicate |-> st.deduplicate, reporting |-> st.reporting,
                         wasCached |-> wasCached, srCalled |-> srCalled,
                         srResult |-> srResult, forwarded |-> shouldReport,
                         queued |-> queued, pushOk |-> pushOk,
                         qBefore |-> rfidQueue, qAfter |-> q1,
                         timersBefore |-> TimersOf(d0.pending, key),
                         timersAfter |-> TimersOf(d1.pending, key),
                         cachedAfter |-> key \in DOMAIN d1.cache,
                         mergedInto |-> MergedInto(d0, key, srCalled)]
  /\ msgSeq' = msgSeq + 1
  /\ UNCHANGED <<now, phase, isShuttingDown, hostnameGroups, state, lastConfigUpdate,
                 redisUp, lastFire, cleanedIds, lastCleanup>>
  /\ UNCHANGED <<queueVars, lastAccepted>>

\* a loadFromGateway started by processTagInventory settles, then the .then() of
\* processTagInventory runs updateInterval(state.deduplicateInterval)
LoadSettles ==
  /\ loads > 0
  /\ \E ok \in BOOLEAN, cfg \in GatewayConfigs :
       LET st == LoadOutcome(ok, cfg)
           d1 == UpdateInterval(Dedup, st.deduplicateInterval, now)
       IN /\ state' = st
          /\ lastConfigUpdate' = IF ok THEN now ELSE lastConfigUpdate
          /\ lastAccepted' = IF ok THEN st ELSE lastAccepted
          /\ SetDedup(d1)
          /\ win' = WinAfterUpdate(win, Dedup, d1, now)
  /\ loads' = loads - 1
  /\ UNCHANGED <<now, phase, isShuttingDown, hostnameGroups, rfidQueue, messageCounter,
                 msgSeq, redisUp, lastMsg, lastFire, cleanedIds, lastCleanup>>
  /\ UNCHANGED queueVars

\* a due setTimeout callback runs reportCached(key); the report callback is the one
\* setupDeduplicator installed (queueTagEvent)
TimerFires ==
  \E t \in pending :
    /\ t.fireAt <= now
    /\ LET d0 == [Dedup EXCEPT !.pending = @ \ {t}]
           pushOk == redisUp
           called == ReportCachedCalls(d0, t.key)
           event == IF called THEN d0.cache[t.key].event
                    ELSE CreateTagDocument("h1", NoTid, 0)
           enq == called /\ DelayedEnqueue(state.reporting)
           q1 == IF enq
                 THEN AddToRfidQueue(rfidQueue, QueueData(event.tidHex, event), pushOk)
                 ELSE rfidQueue
           d1 == ReportCached(d0, t.key)
           atCall == ReportCachedAtCallback(d0, t.key)
       IN /\ SetDedup(d1)
          /\ rfidQueue' = q1
          /\ messageCounter' = IF enq /\ pushOk THEN messageCounter + 1 ELSE messageCounter
          /\ win' = IF called
                    THEN [win EXCEPT ![t.key].reports = @ + 1, ![t.key].delayed = @ + B(enq)]
                    ELSE win
          /\ lastFire' = [id |-> t.id, key |-> t.key, called |-> called, event |-> event,
                          expected |-> win[t.key].lastObs, at |-> now,
                          dueAt |-> win[t.key].dueAt, changed |-> win[t.key].changed,
                          hits |-> win[t.key].hits, reporting |-> state.reporting,
                          enqueued |-> enq, pushOk |-> pushOk,
                          qBefore |-> rfidQueue, qAfter |-> q1,
                          cachedAtCall |-> called /\ t.key \in DOMAIN atCall.cache,
                          timerAtCall |-> called /\ t.key \in DOMAIN atCall.timers,
                          missAtCall |-> called /\ ShouldReportResult(atCall, t.key),
                          missAfter |-> called /\ ShouldReportResult(d1, t.key)]
    /\ UNCHANGED <<now, phase, isShuttingDown, hostnameGroups, state, lastConfigUpdate,
                   loads, msgSeq, redisUp, lastMsg, cleanedIds, lastCleanup>>
    /\ UNCHANGED <<queueVars, lastAccepted>>

\* shutdown: mqttClient.disconnect() -> deduplicator.cleanup()
Disconnect ==
  /\ phase = "running"
  /\ ~isShuttingDown
  /\ isShuttingDown' = TRUE
  /\ SetDedup(Cleanup(Dedup))
  /\ cleanedIds' = cleanedIds \cup {t.id : t \in pending}
  /\ lastCleanup' = LET d1 == Cleanup(Dedup)
                    IN [calls |-> lastCleanup.calls + 1,
                        hadKeys |-> DOMAIN cache,
                        activeKeys |-> Cardinality(DOMAIN d1.cache),
                        activeTimers |-> Cardinality(DOMAIN d1.timers),
                        armed |-> d1.pending]
  /\ UNCHANGED <<now, phase, hostnameGroups, state, lastConfigUpdate, loads, rfidQueue,
                 messageCounter, msgSeq, redisUp, win, lastMsg, lastFire>>
  /\ UNCHANGED <<queueVars, lastAccepted>>

\* a minute passes; a due timer runs before the clock moves on, and a pending
\* loadFromGateway has settled by then (its request times out after 5000 ms)
Tick ==
  /\ phase = "running"
  /\ now < MaxTime
  /\ loads = 0
  /\ \A t \in pending : t.fireAt > now
  /\ now' = now + 1
  /\ UNCHANGED <<phase, isShuttingDown, hostnameGroups, state, lastConfigUpdate, loads,
                 intervalMinutes, cache, timers, pending, timerSeq, rfidQueue,
                 messageCounter, msgSeq, redisUp, win, lastMsg, lastFire, cleanedIds,
                 lastCleanup>>
  /\ UNCHANGED <<queueVars, lastAccepted>>

\* the durable store becomes unreachable (it was reachable at startup, where
\* RedisRetryQueue.initialize pings it)
RedisGoesDown ==
  /\ phase = "running"
  /\ redisUp
  /\ redisUp' = FALSE
  /\ UNCHANGED <<now, phase, isShuttingDown, hostnameGroups, state, lastConfigUpdate, loads,
                 intervalMinutes, cache, timers, pending, timerSeq, rfidQueue,
                 messageCounter, msgSeq, win, lastMsg, lastFire, cleanedIds, lastCleanup>>
  /\ UNCHANGED <<queueVars, lastAccepted>>

\* what a message that is not a well-formed tagInventory event can be
MalformedKinds == {"unparseable", "noRecord", "noTid"}

\* whether handleMessage's catch runs and calls metricsCollector.recordError: JSON.parse
\* throws on an unparseable message, reading tidHex of a missing tagInventoryEvent
\* throws too; a record without tidHex makes processTagInventory log a warning and return
RecordsError(kind) == kind \in {"unparseable", "noRecord"}

\* handleMessage for a malformed message
HandleMalformed ==
  /\ phase = "running"
  /\ ~isShuttingDown
  /\ msgSeq < MaxMsgs
  /\ \E kind \in MalformedKinds :
       lastBad' = [seq |-> msgSeq + 1, kind |-> kind, recorded |-> RecordsError(kind)]
  /\ msgSeq' = msgSeq + 1
  /\ UNCHANGED <<now, phase, isShuttingDown, hostnameGroups, state, lastConfigUpdate,
                 loads, intervalMinutes, cache, timers, pending, timerSeq, rfidQueue,
                 messageCounter, redisUp, win, lastMsg, lastFire, cleanedIds, lastCleanup,
                 lastAccepted>>
  /\ UNCHANGED <<side, workload, retryVars, gatewayVars, serviceVars, shutdownVars>>

Next ==
  \/ Start
  \/ ProcessTagInventory
  \/ LoadSettles
  \/ TimerFires
  \/ Disconnect
  \/ RedisGoesDown
  \/ Tick

Spec == Init /\ [][Next]_vars

\* ----- hostname groups: the resolver over a range of config files
\* reader hostnames; "g1" is a reader named like a group
GroupHosts == {"h1", "h2", "g1"}
GroupMembers == {{"h1"}, {"h2"}, {"h1", "h2"}}
GroupEntries == [name : {"g1", "g2"}, hostnames : GroupMembers]

\* Object.entries(config.groups): no group, one group, or two groups of different names
GroupLists ==
  {<< >>} \cup {<<g>> : g \in GroupEntries}
          \cup {<<g, h>> : <<g, h>> \in {p \in GroupEntries \X GroupEntries : p[1].name # p[2].name}}

GroupFiles == [deduplicationGroup : {"hostname", "group"}, groups : GroupLists]

GroupsSide == side = "groups"

\* processTagInventory with deduplication on, as far as the deduplication key and
\* shouldReport are concerned
ObserveTag ==
  /\ GroupsSide
  /\ msgSeq < MaxMsgs
  /\ \E hostname \in GroupHosts, tidHex \in Tids :
       LET seq == msgSeq + 1
           tagDocument == CreateTagDocument(hostname, tidHex, seq)
           key == GetDeduplicationKey(hostnameGroups, hostname, tidHex)
           d0 == Dedup
           wasCached == key \in DOMAIN d0.cache
           srResult == ShouldReportResult(d0, key)
           d1 == ShouldReport(d0, now, key, tagDocument, now)
       IN /\ SetDedup(d1)
          /\ lastMsg' = [NoMsg EXCEPT !.seq = seq, !.hasTid = TRUE, !.key = key,
                                      !.doc = tagDocument, !.deduplicate = TRUE,
                                      !.wasCached = wasCached, !.srCalled = TRUE,
                                      !.srResult = srResult, !.forwarded = srResult,
                                      !.cachedAfter = key \in DOMAIN d1.cache,
                                      !.mergedInto = MergedInto(d0, key, TRUE)]
  /\ msgSeq' = msgSeq + 1
  /\ UNCHANGED <<now, phase, isShuttingDown, hostnameGroups, state, lastConfigUpdate,
                 loads, rfidQueue, messageCounter, redisUp, win, lastFire, cleanedIds,
                 lastCleanup, lastAccepted>>
  /\ UNCHANGED queueVars

\* the timer of a window fires: reportCached(key)
WindowExpires ==
  /\ GroupsSide
  /\ \E t \in pending :
       SetDedup(ReportCached([Dedup EXCEPT !.pending = @ \ {t}], t.key))
  /\ UNCHANGED <<now, phase, isShuttingDown, hostnameGroups, state, lastConfigUpdate,
                 loads, rfidQueue, messageCounter, msgSeq, redisUp, win, lastMsg, lastFire,
                 cleanedIds, lastCleanup, lastAccepted>>
  /\ UNCHANGED queueVars

InitGroups ==
  /\ IngestorAtRest
  /\ hostnameGroups \in GroupFiles
  /\ side = "groups"
  /\ workload = NoWorkload
  /\ RetryAtRest
  /\ GatewayAtRest(<< >>)
  /\ ServicesAtRest

NextGroups ==
  \/ ObserveTag
  \/ WindowExpires

SpecGroups == InitGroups /\ [][NextGroups]_vars

\* the ingestor with malformed messages among its input
NextInput ==
  \/ Start
  \/ ProcessTagInventory
  \/ HandleMalformed
  \/ LoadSettles
  \/ TimerFires
  \/ Disconnect
  \/ RedisGoesDown
  \/ Tick

SpecInput == Init /\ [][NextInput]_vars

TypeOK ==
  /\ now \in 0..MaxTime
  /\ phase \in {"constructed", "running"}
  /\ state \in [deduplicate : BOOLEAN, deduplicateInterval : Intervals \cup {DefaultInterval},
                reporting : BOOLEAN]
  /\ DOMAIN cache \subseteq AllKeys
  /\ DOMAIN timers \subseteq AllKeys
  /\ loads \in 0..MaxMsgs

\* ======================= Deduplicator properties =======================

\* C1: with deduplication enabled, in every window of every key exactly one
\* shouldReport call returns true (the call that finds the key absent), every later
\* call inside the window returns false, and the report callback runs at most once
\* for the window.
C1_OneAdmissionOneReportPerWindow ==
  /\ \A k \in AllKeys :
       /\ k \in DOMAIN cache => win[k].admits = 1 /\ win[k].reports = 0
       /\ k \notin DOMAIN cache => win[k].admits <= 1 /\ win[k].reports <= 1
       /\ win[k].reports = 1 => win[k].admits = 1
       /\ win[k].falses = win[k].hits
  /\ lastMsg.srCalled => (lastMsg.srResult <=> ~lastMsg.wasCached)

C1_Witness ==
  \E k \in AllKeys : win[k].admits = 1 /\ win[k].hits >= 2 /\ win[k].reports = 1

\* C2: when a key's timer fires, the report callback receives the event of the most
\* recent shouldReport call for that key (each hit replaced the cached event).
C2_ReportsLastEvent ==
  lastFire.called => /\ lastFire.event.seq = lastFire.expected
                     /\ lastFire.expected > 0

C2_Witness ==
  lastFire.called /\ lastFire.hits >= 2 /\ lastFire.event.seq = lastFire.expected

\* C3: in every reachable state the keys of the cache are the keys of the timer map,
\* every cached key has exactly one armed timer (the one both maps refer to), no armed
\* timer belongs to an uncached key, and getStats reports activeKeys = activeTimers.
C3_OneTimerPerCachedKey ==
  /\ DOMAIN cache = DOMAIN timers
  /\ \A k \in DOMAIN cache :
       /\ Cardinality(TimersOf(pending, k)) = 1
       /\ k \in DOMAIN timers =>
            /\ \A t \in TimersOf(pending, k) : t.id = timers[k]
            /\ cache[k].timer = timers[k]
  /\ \A t \in pending : t.key \in DOMAIN cache
  /\ GetStats.activeKeys = GetStats.activeTimers

C3_Witness ==
  /\ lastFire.called
  /\ lastFire.key \notin DOMAIN cache
  /\ Cardinality(DOMAIN cache) = 1
  /\ GetStats.activeTimers = 1

\* C4: a hit leaves the key's armed timer untouched, and a window whose interval was
\* not changed by updateInterval ends exactly one interval after the miss that opened
\* it, however many hits it saw.
C4_HitsNeverReschedule ==
  /\ (lastMsg.srCalled /\ lastMsg.wasCached) => lastMsg.timersAfter = lastMsg.timersBefore
  /\ (lastFire.called /\ ~lastFire.changed) => lastFire.at = lastFire.dueAt

C4_Witness ==
  /\ lastFire.called /\ ~lastFire.changed /\ lastFire.hits >= 2
  /\ lastFire.at = lastFire.dueAt

\* C5: cleanup() leaves the cache and the timer map empty and no timer armed, and the
\* report callback never runs for a window that was open when cleanup() was called.
C5_CleanupCancelsEverything ==
  /\ lastCleanup.calls > 0 =>
       /\ lastCleanup.activeKeys = 0
       /\ lastCleanup.activeTimers = 0
       /\ lastCleanup.armed = {}
       /\ \A k \in lastCleanup.hadKeys : win[k].reports = 0
  /\ \A t \in pending : t.id \notin cleanedIds
  /\ lastFire.id \notin cleanedIds

C5_Witness ==
  /\ lastCleanup.calls > 0
  /\ \E k \in lastCleanup.hadKeys : now > win[k].dueAt /\ win[k].reports = 0

ArmedFireTimes(k) == {t.fireAt : t \in TimersOf(pending, k)}

\* C6 as stated: an interval change leaves the fire time of every entry already in
\* the cache at the time fixed when the entry was created.
C6_ExistingEntriesKeepFireTime ==
  \A k \in DOMAIN cache : ArmedFireTimes(k) = {win[k].dueAt}

\* C6 amended: updateInterval(m) with m different from the current interval re-arms
\* the timer of every entry already in the cache to fire m minutes after the change;
\* an entry created after the last change fires one interval after its creation.
C6_IntervalChangeRearmsExisting ==
  \A k \in DOMAIN cache :
    ArmedFireTimes(k) = {IF win[k].changed THEN win[k].changedAt + intervalMinutes
                         ELSE win[k].dueAt}

C6_Witness ==
  \E k \in DOMAIN cache :
    win[k].changed /\ ArmedFireTimes(k) = {win[k].changedAt + intervalMinutes}
                   /\ win[k].dueAt \notin ArmedFireTimes(k)

\* C7: a window whose interval was changed while it was open (to a larger value too,
\* any number of times) still has exactly one immediate admission, at most one
\* delayed report, and exactly one armed timer while it is open.
C7_IntervalChangeNoExtraReports ==
  \A k \in AllKeys :
    win[k].changed =>
      /\ win[k].admits = 1
      /\ win[k].reports <= 1
      /\ k \in DOMAIN cache => win[k].reports = 0 /\ Cardinality(TimersOf(pending, k)) = 1
      /\ k \notin DOMAIN cache => TimersOf(pending, k) = {}

C7_Witness ==
  \E k \in AllKeys : win[k].changed /\ win[k].larger /\ win[k].reports = 1

\* ========================= Ingestor properties =========================

PushedOnto(queue, doc, ok) ==
  IF ok THEN <<QueueData(doc.tidHex, doc)>> \o queue ELSE queue

\* C8: a tagInventory message with a tid is enqueued at once exactly when (deduplicate
\* is false or shouldReport returned true) and reporting is true; otherwise the list
\* is left as it was.
C8_ImmediateEnqueueDecision ==
  lastMsg.hasTid =>
    /\ lastMsg.queued <=>
         ((~lastMsg.deduplicate \/ (lastMsg.srCalled /\ lastMsg.srResult))
          /\ lastMsg.reporting)
    /\ lastMsg.qAfter = IF lastMsg.queued
                        THEN PushedOnto(lastMsg.qBefore, lastMsg.doc, lastMsg.pushOk)
                        ELSE lastMsg.qBefore

C8_Witness ==
  /\ lastMsg.hasTid /\ lastMsg.deduplicate /\ lastMsg.srResult /\ lastMsg.reporting
  /\ lastMsg.queued /\ lastMsg.pushOk
  /\ Len(lastMsg.qAfter) = Len(lastMsg.qBefore) + 1

\* C9 as stated: with deduplication disabled every tag event yields an immediate
\* enqueue and creates no cache entry.
C9_DedupOffAlwaysEnqueues ==
  (lastMsg.hasTid /\ ~lastMsg.deduplicate) =>
    /\ lastMsg.queued
    /\ lastMsg.cachedAfter = lastMsg.wasCached

\* C9 amended: with deduplication disabled every tag event is enqueued at once when
\* reporting is enabled and is not enqueued when reporting is disabled; in both cases
\* the Deduplicator is not consulted and no cache entry or timer is created.
C9_DedupOffEnqueuesIffReporting ==
  (lastMsg.hasTid /\ ~lastMsg.deduplicate) =>
    /\ lastMsg.queued <=> lastMsg.reporting
    /\ lastMsg.forwarded
    /\ ~lastMsg.srCalled
    /\ lastMsg.cachedAfter = lastMsg.wasCached
    /\ lastMsg.timersAfter = lastMsg.timersBefore
    /\ lastMsg.qAfter = IF lastMsg.reporting
                        THEN PushedOnto(lastMsg.qBefore, lastMsg.doc, lastMsg.pushOk)
                        ELSE lastMsg.qBefore

C9_Witness ==
  /\ lastMsg.hasTid /\ ~lastMsg.deduplicate /\ lastMsg.reporting
  /\ lastMsg.queued /\ lastMsg.pushOk /\ ~lastMsg.cachedAfter
  /\ Len(lastMsg.qAfter) = Len(lastMsg.qBefore) + 1

\* C10: the delayed report is pushed whatever the reporting flag is when the timer
\* fires; a window all of whose observations were processed with deduplication on and
\* reporting off has no immediate enqueue and one delayed enqueue when it ends,
\* carrying the last observed event.
C10_DelayedReportIgnoresReporting ==
  /\ lastFire.called =>
       /\ lastFire.enqueued
       /\ lastFire.event.seq = lastFire.expected
       /\ lastFire.qAfter = PushedOnto(lastFire.qBefore, lastFire.event, lastFire.pushOk)
  /\ \A k \in AllKeys :
       win[k].quiet => /\ win[k].immediates = 0
                       /\ win[k].delayed = win[k].reports
                       /\ win[k].reports <= 1

C10_Witness ==
  /\ lastFire.called /\ ~lastFire.reporting /\ lastFire.pushOk /\ lastFire.hits >= 1
  /\ win[lastFire.key].quiet
  /\ win[lastFire.key].immediates = 0
  /\ win[lastFire.key].delayed = 1
  /\ Len(lastFire.qAfter) = Len(lastFire.qBefore) + 1

\* ======================= Staging-queue properties ======================

\* C12 as stated: every enqueue of a tag document by the Ingestor (immediate or
\* delayed) is subject to the capacity limit: with nothing drained, once the list
\* holds max_queue_size items every further enqueue is rejected and the list never
\* holds more than max_queue_size items.
C12_IngestorEnqueueCapped ==
  /\ (lastMsg.queued /\ Len(lastMsg.qBefore) >= MaxQueueSize) =>
       lastMsg.qAfter = lastMsg.qBefore
  /\ (lastFire.enqueued /\ Len(lastFire.qBefore) >= MaxQueueSize) =>
       lastFire.qAfter = lastFire.qBefore
  /\ Len(rfidQueue) <= MaxQueueSize

\* =================== RedisRetryQueue (rfid-processor) ===================

\* ----- constructor constants
MaxAttempts == 5
BaseDelay == 1000
MaxDelay == 30000
IdleDelay == 1000
BusyDelay == 100
RestartDelay == 5000
BatchLimit == 10

MemoryProbes == {"ok", "high", "error"}
WriteOutcomes == {"ok", "5xx", "4xx"}

Min(a, b) == IF a <= b THEN a ELSE b

\* retryItemLogic: Math.min(baseDelay * Math.pow(2, attempts - 1), maxDelay)
Backoff(attempts) == Min(BaseDelay * 2^(attempts - 1), MaxDelay)

\* addToRetryQueue / fallbackToMemory: the item as first stored
NewItem(t) == [attempts |-> 0, nextRetry |-> t]

TotalSize(durable, fallback) == Cardinality(DOMAIN durable) + Cardinality(DOMAIN fallback)

\* checkCapacity: canAdd, and whether the size was read at all
CheckCapacity(up, durable, fallback, memory) ==
  IF ~up
  THEN [canAdd |-> TRUE, sizeChecked |-> FALSE]
  ELSE IF TotalSize(durable, fallback) >= MaxQueueSize
       THEN [canAdd |-> FALSE, sizeChecked |-> TRUE]
       ELSE [canAdd |-> memory # "high", sizeChecked |-> TRUE]

\* fallbackToMemory: is the item taken
FallbackAdmits(fallback) == ~(Cardinality(DOMAIN fallback) >= MaxQueueSize)

\* keys of items whose nextRetry has come, by non-decreasing nextRetry
RECURSIVE ByScore(_, _)
ByScore(items, keys) ==
  IF keys = {} THEN << >>
  ELSE LET k == CHOOSE x \in keys : \A y \in keys : items[x].nextRetry <= items[y].nextRetry
       IN <<k>> \o ByScore(items, keys \ {k})

ReadyKeys(items, t) == {k \in DOMAIN items : items[k].nextRetry <= t}

\* zrangebyscore(queueKey, 0, now, 'LIMIT', 0, 10)
ZRangeByScore(durable, t) ==
  LET all == ByScore(durable, ReadyKeys(durable, t))
  IN SubSeq(all, 1, Min(Len(all), BatchLimit))

\* processMemoryFallback: entries with now >= item.nextRetry
MemoryReady(fallback, t) == ByScore(fallback, ReadyKeys(fallback, t))

\* ----- the processing loop: chains of processRetryQueue and startProcessing timers
FreshLoopId == CHOOSE n \in 1..(Cardinality(loops) + 1) : \A l \in loops : l.id # n

TimerLoop(id, at) == [id |-> id, pc |-> "timer", at |-> at, batch |-> << >>, isMemory |-> FALSE]
RestartLoop(id, at) == [id |-> id, pc |-> "restart", at |-> at, batch |-> << >>, isMemory |-> FALSE]

\* startProcessing: does it start a chain
StartsProcessingAlways(processing) == TRUE
StartsProcessing(processing) == ~processing

\* processRetryQueue after its batch: the next check is scheduled
AfterBatch(l, rest, t) ==
  IF rest = << >>
  THEN TimerLoop(l.id, t + (IF l.isMemory THEN IdleDelay ELSE BusyDelay))
  ELSE [l EXCEPT !.pc = "batch", !.batch = rest]

\* processRetryQueue: which batch the poll hands to the loop; the in-process
\* fallback is looked at only when the durable store has nothing ready
PollBatch(durable, fallback, t) ==
  IF ZRangeByScore(durable, t) # << >>
  THEN [batch |-> ZRangeByScore(durable, t), isMemory |-> FALSE]
  ELSE [batch |-> MemoryReady(fallback, t), isMemory |-> TRUE]

\* retryItemLogic: what becomes of the item after a write attempt; removed, or kept
\* with the new attempts counter and nextRetry
AfterAttempt(item, outcome, t) ==
  IF outcome = "ok"
  THEN [removed |-> TRUE, item |-> item]
  ELSE IF item.attempts + 1 >= MaxAttempts
       THEN [removed |-> TRUE, item |-> [item EXCEPT !.attempts = @ + 1]]
       ELSE [removed |-> FALSE,
             item |-> [attempts |-> item.attempts + 1,
                       nextRetry |-> t + Backoff(item.attempts + 1)]]

\* ----- actions of the processor's retry queue
ProcessorSide == side = "processor"

\* is a command issued now answered: the store is reachable and quit() was not called
Serves == storeUp /\ gwPhase = "running"

\* the answers setex + zadd of a call can get: a call that issued them before quit()
\* may have both answered or the second refused, one that issues them later is refused
StoreAnswers(pc) ==
  IF gwPhase = "running" THEN {storeUp}
  ELSE IF pc = "late" THEN {FALSE} ELSE {storeUp, FALSE}

\* the chain dies in processRetryQueue's catch: isProcessing = false and
\* setTimeout(() => this.startProcessing(), 5000)
LoopFails(l) ==
  /\ isProcessing' = FALSE
  /\ loops' = (loops \ {l}) \cup {RestartLoop(l.id, clock + RestartDelay)}

\* addToRetryQueue is called for a failed write
AddToRetryQueue ==
  /\ ProcessorSide
  /\ \E k \in workload.keys \ DOMAIN calls :
       calls' = MapSet(calls, k, [pc |-> "capacity", sizeChecked |-> FALSE,
                                  totalAtCheck |-> 0, memory |-> "ok"])
  /\ UNCHANGED <<beyondRetry, clock, storeUp, outages, zset, memoryFallback,
                 isProcessing, loops, tries, lastEnq, lastAttempt>>

\* await this.checkCapacity() returns to addToRetryQueue
CapacityChecked ==
  /\ ProcessorSide
  /\ \E k \in DOMAIN calls, memory \in MemoryProbes :
       /\ calls[k].pc = "capacity"
       /\ LET cap == CheckCapacity(storeUp, zset, memoryFallback, memory)
              total == TotalSize(zset, memoryFallback)
              seen == [pc |-> IF ~cap.canAdd THEN "false"
                              ELSE IF gwPhase = "running" THEN "store" ELSE "late",
                       sizeChecked |-> cap.sizeChecked, totalAtCheck |-> total,
                       memory |-> IF storeUp THEN memory ELSE "error"]
          IN /\ calls' = MapSet(calls, k, seen)
             /\ lastEnq' = IF cap.canAdd THEN lastEnq
                           ELSE [key |-> k, returned |-> TRUE, accepted |-> FALSE,
                                 sizeChecked |-> seen.sizeChecked,
                                 totalAtCheck |-> total, memory |-> seen.memory,
                                 totalAtStore |-> total, fallback |-> FALSE]
  /\ UNCHANGED <<beyondRetry, clock, storeUp, outages, zset, memoryFallback,
                 isProcessing, loops, tries, lastAttempt>>

\* setex + zadd, then startProcessing; or, when they throw, fallbackToMemory
StoreItem ==
  /\ ProcessorSide
  /\ \E k \in DOMAIN calls, up \in BOOLEAN :
       /\ calls[k].pc \in {"store", "late"}
       /\ up \in StoreAnswers(calls[k].pc)
       /\ LET total == TotalSize(zset, memoryFallback)
              taken == up \/ FallbackAdmits(memoryFallback)
              starts == up /\ StartsProcessing(isProcessing)
          IN /\ zset' = IF up THEN MapSet(zset, k, NewItem(clock)) ELSE zset
             /\ memoryFallback' = IF ~up /\ taken
                                  THEN MapSet(memoryFallback, k, NewItem(clock))
                                  ELSE memoryFallback
             /\ isProcessing' = (isProcessing \/ starts)
             /\ loops' = IF starts THEN loops \cup {TimerLoop(FreshLoopId, clock)} ELSE loops
             /\ calls' = MapSet(calls, k, [calls[k] EXCEPT
                                             !.pc = IF taken THEN "true" ELSE "false"])
             /\ lastEnq' = [key |-> k, returned |-> TRUE, accepted |-> taken,
                            sizeChecked |-> calls[k].sizeChecked,
                            totalAtCheck |-> calls[k].totalAtCheck,
                            memory |-> calls[k].memory,
                            totalAtStore |-> total, fallback |-> ~up]
  /\ UNCHANGED <<beyondRetry, clock, storeUp, outages, tries, lastAttempt>>

\* a due setTimeout runs processRetryQueue up to the answer of zrangebyscore
Poll ==
  /\ ProcessorSide
  /\ \E l \in loops :
       /\ l.pc = "timer" /\ l.at <= clock
       /\ IF ~Serves
          THEN LoopFails(l)
          ELSE LET b == PollBatch(zset, memoryFallback, clock)
                   next == IF b.batch = << >>
                           THEN TimerLoop(l.id, clock + IdleDelay)
                           ELSE [id |-> l.id, pc |-> "batch", at |-> clock,
                                 batch |-> b.batch, isMemory |-> b.isMemory]
               IN /\ loops' = (loops \ {l}) \cup {next}
                  /\ UNCHANGED isProcessing
  /\ UNCHANGED <<beyondRetry, clock, storeUp, outages, zset, memoryFallback, calls,
                 tries, lastEnq, lastAttempt>>

\* retryItem / retryMemoryItem take the next item of the batch and start the write
BeginAttempt ==
  /\ ProcessorSide
  /\ \E l \in loops :
       /\ l.pc = "batch"
       /\ LET k == Head(l.batch)
          IN IF ~l.isMemory /\ ~Serves
             THEN LoopFails(l) /\ UNCHANGED tries
             ELSE IF ~l.isMemory /\ k \notin DOMAIN zset
                  THEN /\ loops' = (loops \ {l}) \cup {AfterBatch(l, Tail(l.batch), clock)}
                       /\ UNCHANGED <<isProcessing, tries>>
                  ELSE /\ loops' = (loops \ {l}) \cup {[l EXCEPT !.pc = "write"]}
                       /\ tries' = [tries EXCEPT ![k] = @ + 1]
                       /\ UNCHANGED isProcessing
  /\ UNCHANGED <<beyondRetry, clock, storeUp, outages, zset, memoryFallback, calls,
                 lastEnq, lastAttempt>>

\* the write settles and retryItemLogic records the outcome
FinishAttempt ==
  /\ ProcessorSide
  /\ \E l \in loops, outcome \in WriteOutcomes :
       /\ l.pc = "write"
       /\ LET k == Head(l.batch)
              held == IF l.isMemory THEN memoryFallback ELSE zset
              present == k \in DOMAIN held
              item == IF present THEN held[k] ELSE NewItem(clock)
              after == AfterAttempt(item, outcome, clock)
              recorded == l.isMemory \/ Serves
              kept == IF after.removed THEN MapDelete(held, k)
                      ELSE MapSet(held, k, after.item)
          IN /\ IF recorded
                THEN /\ loops' = (loops \ {l}) \cup {AfterBatch(l, Tail(l.batch), clock)}
                     /\ UNCHANGED isProcessing
                ELSE LoopFails(l)
             /\ memoryFallback' = IF l.isMemory THEN kept ELSE memoryFallback
             /\ zset' = IF ~l.isMemory /\ recorded THEN kept ELSE zset
             /\ lastAttempt' = [key |-> k, isMemory |-> l.isMemory, outcome |-> outcome,
                                number |-> tries[k], attemptsBefore |-> item.attempts,
                                recorded |-> recorded,
                                removed |-> recorded /\ after.removed,
                                attemptsAfter |-> IF recorded THEN after.item.attempts
                                                  ELSE item.attempts,
                                nextRetryAfter |-> IF recorded THEN after.item.nextRetry
                                                   ELSE item.nextRetry,
                                at |-> clock]
  /\ UNCHANGED <<beyondRetry, clock, storeUp, outages, calls, tries, lastEnq>>

\* the 5 s timer armed by a failed chain runs startProcessing
Restart ==
  /\ ProcessorSide
  /\ \E l \in loops :
       /\ l.pc = "restart" /\ l.at <= clock
       /\ IF StartsProcessing(isProcessing)
          THEN /\ isProcessing' = TRUE
               /\ loops' = (loops \ {l}) \cup {TimerLoop(l.id, clock)}
          ELSE /\ loops' = loops \ {l}
               /\ UNCHANGED isProcessing
  /\ UNCHANGED <<beyondRetry, clock, storeUp, outages, zset, memoryFallback, calls,
                 tries, lastEnq, lastAttempt>>

\* the durable store becomes unreachable / reachable again
StoreGoesDown ==
  /\ side \in {"processor", "gateway"}
  /\ storeUp /\ outages < MaxOutages
  /\ storeUp' = FALSE
  /\ outages' = outages + 1
  /\ UNCHANGED <<beyondRetry, clock, zset, memoryFallback, isProcessing, calls, loops,
                 tries, lastEnq, lastAttempt>>

StoreComesBack ==
  /\ side \in {"processor", "gateway"}
  /\ ~storeUp
  /\ storeUp' = TRUE
  /\ UNCHANGED <<beyondRetry, clock, outages, zset, memoryFallback, isProcessing,
                 calls, loops, tries, lastEnq, lastAttempt>>

InFlight ==
  \/ \E k \in DOMAIN calls : calls[k].pc \in {"capacity", "store", "late"}
  \/ \E l \in loops : l.pc \in {"batch", "write"}

\* time passes to the next armed timer; handlers run to completion well within it.
\* Once quit() is called the process exits as soon as it is answered, so only what
\* is due or in flight at that instant is followed
Advance ==
  /\ ProcessorSide
  /\ gwPhase = "running"
  /\ ~InFlight
  /\ loops # {}
  /\ \A l \in loops : l.at > clock
  /\ \E l \in loops :
       /\ \A m \in loops : l.at <= m.at
       /\ l.at <= workload.horizon
       /\ clock' = l.at
  /\ UNCHANGED <<beyondRetry, storeUp, outages, zset, memoryFallback, isProcessing,
                 calls, loops, tries, lastEnq, lastAttempt>>

\* ====================== RedisService (firebase-gateway) ======================

GwMaxAttempts == 5

\* addToRetryQueue: the retryItem pushed for an operation
RetryItem(operation) == [op |-> operation, attempts |-> 0]

\* lPush puts at the head, rPop takes from the tail
LPush(list, x) == <<x>> \o list
RPopped(list) == list[Len(list)]
AfterRPop(list) == SubSeq(list, 1, Len(list) - 1)

GatewaySide == side = "gateway"

\* processRfidQueue: a 100 ms tick takes the oldest staged item and starts its write
GwProcessRfidQueue ==
  /\ GatewaySide
  /\ gwPhase = "running"
  /\ storeUp /\ ~isProcessing
  /\ gwStaging # << >>
  /\ LET k == RPopped(gwStaging)
     IN /\ gwStaging' = AfterRPop(gwStaging)
        /\ gwJobs' = gwJobs \cup {[kind |-> "rfid", op |-> k, attempts |-> 0]}
        /\ gwBusy' = [gwBusy EXCEPT ![k] = @ + 1]
        /\ gwTries' = [gwTries EXCEPT ![k] = @ + 1]
  /\ isProcessing' = TRUE
  /\ UNCHANGED <<beyondGateway, storeUp, gwRetry, gwFate, lastGw>>

\* processRetryQueue: a 5 s tick takes the oldest retryItem, counts the attempt and
\* either gives the operation up or starts retryOperation
GwProcessRetryQueue ==
  /\ GatewaySide
  /\ gwPhase = "running"
  /\ storeUp
  /\ gwRetry # << >>
  /\ LET retryItem == [RPopped(gwRetry) EXCEPT !.attempts = @ + 1]
         k == retryItem.op
         givenUp == retryItem.attempts >= GwMaxAttempts
     IN /\ gwTries[k] < MaxWrites
        /\ gwRetry' = AfterRPop(gwRetry)
        /\ gwJobs' = IF givenUp THEN gwJobs
                     ELSE gwJobs \cup {[kind |-> "retry", op |-> k,
                                        attempts |-> retryItem.attempts]}
        /\ gwBusy' = IF givenUp THEN gwBusy ELSE [gwBusy EXCEPT ![k] = @ + 1]
        /\ gwTries' = IF givenUp THEN gwTries ELSE [gwTries EXCEPT ![k] = @ + 1]
        /\ gwFate' = IF givenUp THEN [gwFate EXCEPT ![k] = "discarded"] ELSE gwFate
  /\ UNCHANGED <<beyondGateway, storeUp, isProcessing, gwStaging, lastGw>>

\* processTagReadItem settles: createDocument resolved, or it threw and the operation
\* is handed to addToRetryQueue, which throws when the store is not connected; that
\* error is only logged by the callers (processRfidQueue, processRetryQueue)
GwWriteSettles ==
  /\ GatewaySide
  /\ gwPhase # "exited"
  /\ \E j \in gwJobs, outcome \in WriteOutcomes :
       LET k == j.op
           failed == outcome # "ok"
           requeued == failed /\ storeUp /\ gwPhase = "running"
           lost == failed /\ ~requeued
       IN /\ gwJobs' = gwJobs \ {j}
          /\ gwBusy' = [gwBusy EXCEPT ![k] = @ - 1]
          /\ gwRetry' = IF requeued THEN LPush(gwRetry, RetryItem(k)) ELSE gwRetry
          /\ gwFate' = IF ~failed THEN [gwFate EXCEPT ![k] = "written"]
                       ELSE IF lost THEN [gwFate EXCEPT ![k] = "lost"]
                       ELSE gwFate
          /\ isProcessing' = IF j.kind = "rfid" THEN FALSE ELSE isProcessing
          /\ lastGw' = [op |-> k, kind |-> j.kind, outcome |-> outcome,
                        attempts |-> j.attempts, requeued |-> requeued,
                        requeuedAttempts |-> RetryItem(k).attempts,
                        pushFailed |-> lost]
  /\ UNCHANGED <<beyondGateway, storeUp, gwStaging, gwTries>>

\* ----- the two queue processes, one observed at a time
InitQueues ==
  /\ IngestorInit
  /\ RetryAtRest
  /\ ServicesAtRest
  /\ \/ side = "processor" /\ workload \in Workloads /\ GatewayAtRest(<< >>)
     \/ side = "gateway" /\ workload = NoWorkload /\ GatewayAtRest(<<"a", "b">>)

NextQueues ==
  \/ AddToRetryQueue
  \/ CapacityChecked
  \/ StoreItem
  \/ Poll
  \/ BeginAttempt
  \/ FinishAttempt
  \/ Restart
  \/ Advance
  \/ StoreGoesDown
  \/ StoreComesBack
  \/ GwProcessRfidQueue
  \/ GwProcessRetryQueue
  \/ GwWriteSettles

SpecQueues == InitQueues /\ [][NextQueues]_vars

\* RedisRetryQueue.shutdown, called by the processor's signal handler: isProcessing =
\* false, clearInterval of a processingInterval that is never set, redis.quit()
RetryShutdown ==
  /\ ProcessorSide
  /\ gwPhase = "running"
  /\ isProcessing' = FALSE
  /\ gwPhase' = "closed"
  /\ UNCHANGED <<ingestVars, gatewayVars, side, workload, serviceVars, inputVars, clock,
                 storeUp, outages, zset, memoryFallback, calls, loops, tries, lastEnq,
                 lastAttempt>>

NextRetryShutdown ==
  \/ NextQueues
  \/ RetryShutdown

SpecRetryShutdown == InitQueues /\ [][NextRetryShutdown]_vars

\* ----- shutdown of the gateway (setupGracefulShutdown)
\* the handler up to the end of `await redisService.shutdown()`: client.quit()
GwShutdownSignal ==
  /\ GatewaySide
  /\ gwPhase = "running"
  /\ gwPhase' = "closed"
  /\ UNCHANGED <<ingestVars, side, workload, retryVars, gatewayVars, serviceVars, inputVars>>

\* the rest of the handler: both intervals cleared, configManager and authManager
\* shut down, process.exit(0)
GwExit ==
  /\ GatewaySide
  /\ gwPhase = "closed"
  /\ gwPhase' = "exited"
  /\ UNCHANGED <<ingestVars, side, workload, retryVars, gatewayVars, serviceVars, inputVars>>

InitShutdown ==
  /\ IngestorInit
  /\ RetryAtRest
  /\ ServicesAtRest
  /\ side = "gateway"
  /\ workload = NoWorkload
  /\ GatewayAtRest(<<"a", "b">>)

NextShutdown ==
  \/ GwProcessRfidQueue
  \/ GwProcessRetryQueue
  \/ GwWriteSettles
  \/ GwShutdownSignal
  \/ GwExit

SpecShutdown == InitShutdown /\ [][NextShutdown]_vars

\* ======================= Retry-queue properties ========================

\* C11 as stated: addToRetryQueue returns false whenever the queue size is at least
\* max_queue_size or the store's memory usage is at least max_memory_mb; it may admit
\* when only the memory probe errors, but a call made while the queue is full is
\* never admitted because the size could not be read.
C11_SizeCheckNeverFailsOpen ==
  (lastEnq.returned /\ (lastEnq.totalAtCheck >= MaxQueueSize \/ lastEnq.memory = "high"))
    => ~lastEnq.accepted

\* C13 as stated: under any interleaving of concurrent enqueue calls and any outages
\* and recoveries of the durable store, the pending items (durable sorted set plus
\* in-process fallback) never number more than max_queue_size.
C13_PendingNeverExceedsCapacity ==
  TotalSize(zset, memoryFallback) <= MaxQueueSize

\* C14 as stated: every item held in the in-process fallback is eventually attempted;
\* it is not starved, in particular not when no durable enqueue has started the
\* processing loop. So whenever an item waits in the fallback, either a handler is
\* still running or a timer of the processing loop is armed that will come to it.
C14_FallbackItemsNotStarved ==
  (DOMAIN memoryFallback # {}) => (InFlight \/ loops # {})

\* C16 as stated: an item whose attempts counter reaches max_attempts (5) is removed
\* from the queue (durable set or fallback map) and is not ready again, and no item
\* is ever attempted more than 5 times.
C16_AtMostMaxAttempts ==
  /\ \A k \in DOMAIN zset : zset[k].attempts < MaxAttempts
  /\ \A k \in DOMAIN memoryFallback : memoryFallback[k].attempts < MaxAttempts
  /\ \A k \in DOMAIN tries : tries[k] <= MaxAttempts

\* C15 as stated: after the k-th failed attempt of an item (1 <= k < 5) the item's
\* attempts counter is k and its next retry is due min(1s * 2^(k-1), 30s) after the
\* failure; a successful attempt leaves the counter unchanged and removes the item.
C15_BackoffSchedule ==
  /\ (lastAttempt.outcome \in {"5xx", "4xx"} /\ lastAttempt.number < 5) =>
       /\ lastAttempt.attemptsAfter = lastAttempt.number
       /\ lastAttempt.nextRetryAfter =
            lastAttempt.at + Min(1000 * 2^(lastAttempt.number - 1), 30000)
  /\ lastAttempt.outcome = "ok" =>
       /\ lastAttempt.attemptsAfter = lastAttempt.attemptsBefore
       /\ lastAttempt.removed

\* C18: no item is being attempted by two write attempts at once. In the processor's
\* retry queue at most one pass of the loop holds an item, whether it waits in the
\* pass's batch or its write is in flight, across timer ticks, restarts after an
\* error and concurrent enqueues; in the gateway at most one write of an item taken
\* off the staging list is in flight, and at most one staged item is being processed.
HoldersOf(k) == {l \in loops : l.pc \in {"batch", "write"} /\ \E i \in DOMAIN l.batch : l.batch[i] = k}

C18_NoConcurrentAttempts ==
  /\ \A k \in ItemKeys : Cardinality(HoldersOf(k)) <= 1
  /\ \A k \in DOMAIN gwBusy : gwBusy[k] <= 1
  /\ Cardinality({j \in gwJobs : j.kind = "rfid"}) <= 1

\* a write is in flight while the 5 s restart of a failed pass is still armed
C18_Witness ==
  /\ \E l \in loops : l.pc = "write"
  /\ \E l \in loops : l.pc = "restart"

\* ======================= Gateway-queue properties =======================

\* C17 as stated: in the gateway's retry queue the attempts counter of an operation
\* accumulates across its retries, and once it reaches maxAttempts (5) the operation
\* is dropped and never queued again: an operation put back after a failed retry
\* carries the attempts made so far, and no operation is written more than 5 times.
C17_GatewayRetriesBounded ==
  /\ (lastGw.kind = "retry" /\ lastGw.requeued) =>
       lastGw.requeuedAttempts = lastGw.attempts
  /\ \A k \in DOMAIN gwTries : gwTries[k] <= GwMaxAttempts

\* C19 as stated: a write rejected by the remote store with a non-auth 4xx response
\* is discarded as permanent: once the queue has handled the rejection the item is
\* gone from it and is not put back for a retry, in the processor's retry queue and
\* in the gateway alike.
C19_PermanentRejectionDiscarded ==
  /\ (lastAttempt.outcome = "4xx" /\ lastAttempt.recorded) => lastAttempt.removed
  /\ lastGw.outcome = "4xx" => ~lastGw.requeued

\* C20 as stated: every item the gateway takes off the staging list is in the end
\* written or discarded after max attempts and is never silently lost, also when the
\* push onto the retry list fails or the store is disconnected: so an item taken off
\* staging and not yet written or discarded is still held by the gateway, as a write
\* in flight or as an entry of the retry list.
StagedKeys == {gwStaging[i] : i \in DOMAIN gwStaging}
RetryKeys == {gwRetry[i].op : i \in DOMAIN gwRetry}
WritingKeys == {j.op : j \in gwJobs}

C20_NeverSilentlyLost ==
  GatewaySide =>
    \A k \in ItemKeys \ StagedKeys :
      gwFate[k] \in {"written", "discarded"} \/ k \in WritingKeys \cup RetryKeys

\* ================= ConfigManager and endpoints (firebase-gateway) =================

\* hasRelevantChanges: the fields of relevantFields that a location document of the
\* model carries (reporting and reporting_mobile are not on the list)
RelevantFields == {"deduplicate", "update_window"}

\* hasRelevantChanges(oldData, newData)
HasRelevantChanges(oldData, newData) ==
  IF oldData = NoData \/ newData = NoData THEN TRUE
  ELSE \E field \in RelevantFields : oldData[field] # newData[field]

\* handleConfigUpdate: is cachedConfig replaced
Accepts(oldData, newData) ==
  newData # NoData /\ HasRelevantChanges(oldData, newData)

\* GET /api/config/location/:locationName: the status answered
GetStatus(hasCompanyId, authenticated, cached, docExists, fetchFails) ==
  IF ~hasCompanyId THEN 400
  ELSE IF ~authenticated THEN 401
  ELSE IF cached THEN 200
  ELSE IF fetchFails THEN 500
  ELSE IF ~docExists THEN 404
  ELSE 200

\* PUT /api/config/location/:locationName: the status answered
PutStatus(hasCompanyId, authenticated, docExists, fetchFails) ==
  IF ~hasCompanyId THEN 400
  ELSE IF ~authenticated THEN 401
  ELSE IF fetchFails THEN 500
  ELSE IF ~docExists THEN 404
  ELSE 200

ConfigSide == side = "config"

\* the location document is written or deleted in the remote store by someone else
DocWritten ==
  /\ ConfigSide
  /\ cfgEvents < MaxCfgEvents
  /\ \E d \in LocationDocs \cup {NoData} :
       /\ d # locationDoc
       /\ locationDoc' = d
  /\ cfgEvents' = cfgEvents + 1
  /\ listener' = IF listener = "down" THEN "down" ELSE "due"
  /\ UNCHANGED <<beyondServices, cachedConfig, lastUpdateTime, isAuthenticated, lastCfg,
                 lastReq>>

\* the onSnapshot callback: handleConfigUpdate(snapshot.data(), ...)
SnapshotArrives ==
  /\ ConfigSide
  /\ listener = "due"
  /\ LET newData == locationDoc
         accepted == Accepts(cachedConfig, newData)
     IN /\ cachedConfig' = IF accepted THEN newData ELSE cachedConfig
        /\ lastUpdateTime' = IF accepted THEN cfgEvents ELSE lastUpdateTime
        /\ lastCfg' = [handled |-> TRUE, oldData |-> cachedConfig, newData |-> newData,
                       replaced |-> accepted, timeBefore |-> lastUpdateTime,
                       timeAfter |-> IF accepted THEN cfgEvents ELSE lastUpdateTime,
                       cachedAfter |-> IF accepted THEN newData ELSE cachedConfig,
                       cause |-> IF newData = NoData THEN "empty" ELSE "update"]
  /\ listener' = "idle"
  /\ UNCHANGED <<beyondServices, locationDoc, isAuthenticated, cfgEvents, lastReq>>

\* the onSnapshot error callback: logs and arms setupSnapshotListener in 5 s
SnapshotError ==
  /\ ConfigSide
  /\ listener # "down"
  /\ listener' = "down"
  /\ lastCfg' = [lastCfg EXCEPT !.handled = TRUE, !.oldData = cachedConfig,
                                !.newData = NoData, !.replaced = FALSE,
                                !.timeBefore = lastUpdateTime,
                                !.timeAfter = lastUpdateTime,
                                !.cachedAfter = cachedConfig, !.cause = "error"]
  /\ UNCHANGED <<beyondServices, cachedConfig, lastUpdateTime, locationDoc,
                 isAuthenticated, cfgEvents, lastReq>>

\* setupSnapshotListener runs again; the new listener first delivers the document
Resubscribe ==
  /\ ConfigSide
  /\ listener = "down"
  /\ listener' = "due"
  /\ UNCHANGED <<beyondServices, cachedConfig, lastUpdateTime, locationDoc,
                 isAuthenticated, cfgEvents, lastCfg, lastReq>>

\* onAuthStateChanged: the gateway loses or regains its sign-in
AuthChanges ==
  /\ ConfigSide
  /\ isAuthenticated' = ~isAuthenticated
  /\ UNCHANGED <<beyondServices, cachedConfig, lastUpdateTime, locationDoc, listener,
                 cfgEvents, lastCfg, lastReq>>

\* GET: the location document whose fields the response carries; the cache holds the
\* document of the gateway's own location, a fetch reads the path the request names
ServedFrom(status, cached, requested) ==
  IF status # 200 THEN "none" ELSE IF cached THEN "own" ELSE requested

\* GET /api/config/location/:locationName for the gateway's location ("own") or
\* for a name that has no document ("missing")
GetLocationConfig ==
  /\ ConfigSide
  /\ \E hasCompanyId \in BOOLEAN, fetchFails \in BOOLEAN, requested \in {"own", "missing"} :
       LET docExists == requested = "own" /\ locationDoc # NoData
           cached == cachedConfig # NoData
           status == GetStatus(hasCompanyId, isAuthenticated, cached, docExists, fetchFails)
       IN lastReq' = [method |-> "GET", hasCompanyId |-> hasCompanyId,
                      authenticated |-> isAuthenticated, docExists |-> docExists,
                      fromCache |-> status = 200 /\ cached,
                      failed |-> hasCompanyId /\ isAuthenticated /\ ~cached /\ fetchFails,
                      status |-> status, requested |-> requested,
                      servedFrom |-> ServedFrom(status, cached, requested)]
  /\ UNCHANGED <<beyondServices, cachedConfig, lastUpdateTime, locationDoc, listener,
                 isAuthenticated, cfgEvents, lastCfg>>

\* PUT /api/config/location/:locationName: getDocument, then updateDocument
PutLocationConfig ==
  /\ ConfigSide
  /\ cfgEvents < MaxCfgEvents
  /\ \E hasCompanyId \in BOOLEAN, fetchFails \in BOOLEAN, requested \in {"own", "missing"},
        body \in LocationDocs :
       LET docExists == requested = "own" /\ locationDoc # NoData
           status == PutStatus(hasCompanyId, isAuthenticated, docExists, fetchFails)
           written == status = 200 /\ body # locationDoc
       IN /\ lastReq' = [method |-> "PUT", hasCompanyId |-> hasCompanyId,
                         authenticated |-> isAuthenticated, docExists |-> docExists,
                         fromCache |-> FALSE,
                         failed |-> hasCompanyId /\ isAuthenticated /\ fetchFails,
                         status |-> status, requested |-> requested,
                         servedFrom |-> "none"]
          /\ locationDoc' = IF written THEN body ELSE locationDoc
          /\ cfgEvents' = IF written THEN cfgEvents + 1 ELSE cfgEvents
          /\ listener' = IF written /\ listener # "down" THEN "due" ELSE listener
  /\ UNCHANGED <<beyondServices, cachedConfig, lastUpdateTime, isAuthenticated, lastCfg>>

\* after ConfigManager.initialize: authenticated, the listener about to deliver the
\* location document as it is in the remote store
InitConfig ==
  /\ IngestorInit
  /\ RetryAtRest
  /\ GatewayAtRest(<< >>)
  /\ side = "config"
  /\ workload = NoWorkload
  /\ AuthAtRest
  /\ cachedConfig = NoData
  /\ lastUpdateTime = NoUpdate
  /\ locationDoc \in LocationDocs \cup {NoData}
  /\ listener = "due"
  /\ isAuthenticated = TRUE
  /\ cfgEvents = 0
  /\ lastCfg = NoCfg
  /\ lastReq = NoReq

NextConfig ==
  \/ DocWritten
  \/ SnapshotArrives
  \/ SnapshotError
  \/ Resubscribe
  \/ AuthChanges
  \/ GetLocationConfig
  \/ PutLocationConfig

SpecConfig == InitConfig /\ [][NextConfig]_vars

\* ========================= Configuration properties =========================

\* C21 as stated: on each incoming config update the snapshot is replaced if and only
\* if there is no previous snapshot or a whitelisted field differs from the previous
\* snapshot, the whitelist holding the dedup flags and intervals, the reporting flags
\* and the update-related fields; an update changing only other fields leaves the
\* snapshot and lastUpdateTime as they were.
WhitelistAsSpecified == {"deduplicate", "reporting", "update_window"}

C21_ReplacedIffWhitelistedChange ==
  (lastCfg.cause = "update") =>
    LET differs == lastCfg.oldData = NoData
                   \/ \E f \in WhitelistAsSpecified : lastCfg.oldData[f] # lastCfg.newData[f]
    IN /\ lastCfg.replaced <=> differs
       /\ ~lastCfg.replaced => /\ lastCfg.cachedAfter = lastCfg.oldData
                               /\ lastCfg.timeAfter = lastCfg.timeBefore
       /\ lastCfg.replaced => lastCfg.cachedAfter = lastCfg.newData

\* C22 as stated: readers of the configuration observe the last accepted
\* configuration until a new one is accepted; in particular a failed config load
\* from the gateway leaves the previously accepted deduplicate, interval and
\* reporting values in effect in the processor.
C22_LastAcceptedStaysInEffect ==
  lastAccepted # NoData => state = lastAccepted

\* C23: the ingestor reads the configuration snapshot once per message: the
\* deduplicate flag and the reporting flag applied to a message are those of the
\* one state object that was current when the message was read, whatever refresh
\* is in flight or completes afterwards.
C23_OneSnapshotPerMessage ==
  [][lastMsg'.seq = msgSeq + 1 =>
       /\ lastMsg'.deduplicate = state.deduplicate
       /\ lastMsg'.reporting = state.reporting
       /\ lastMsg'.srCalled <=> state.deduplicate
       /\ lastMsg'.queued <=> (lastMsg'.forwarded /\ state.reporting)]_vars

\* a message was handled under a snapshot that a refresh has since replaced by one
\* with both flags different
C23_Witness ==
  /\ lastMsg.seq > 0
  /\ lastAccepted # NoData
  /\ state = lastAccepted
  /\ lastMsg.deduplicate # state.deduplicate
  /\ lastMsg.reporting # state.reporting

\* C24 as stated: a malformed message (unparseable, tagInventory without a tag
\* record, or without a tid) causes no enqueue and no dedup cache entry, leaves the
\* ingestor running, and the error or drop is counted.
C24_MalformedDroppedAndCounted ==
  [][lastBad'.seq # lastBad.seq =>
       /\ rfidQueue' = rfidQueue
       /\ cache' = cache
       /\ pending' = pending
       /\ phase' = "running"
       /\ lastBad'.recorded]_vars

\* C25: for one key, the delayed report of window N is handed to the queue (its
\* push is issued) before an observation can open window N+1 and cause a new
\* immediate enqueue for that key: whenever shouldReport admits a key that had a
\* window before, that window's report callback has already run and issued its push.
C25_DelayedReportBeforeNextWindow ==
  [][(lastMsg'.seq = msgSeq + 1 /\ lastMsg'.srResult /\ win[lastMsg'.key].admits > 0) =>
       /\ win[lastMsg'.key].reports >= 1
       /\ win[lastMsg'.key].delayed >= 1
       /\ lastMsg'.key \notin DOMAIN cache]_vars

\* the queue holds, for one key, the delayed report of a window below the immediate
\* report that opened the next window
C25_Witness ==
  /\ lastMsg.srResult /\ lastMsg.queued /\ lastMsg.pushOk
  /\ lastFire.called /\ lastFire.enqueued /\ lastFire.pushOk
  /\ lastFire.key = lastMsg.key
  /\ Len(rfidQueue) >= 2
  /\ rfidQueue[1].tagDocument = lastMsg.doc
  /\ rfidQueue[2].tagDocument = lastFire.event
  /\ lastFire.event.seq < lastMsg.seq

\* ----- AuthManager (firebase-gateway): startup authentication
\* loadAuthState: 7 * 24 * 60 * 60 * 1000 ms
SevenDays == 604800000

\* ages (ms) a persisted state may have when the process starts, and the time that
\* may pass between a run and the next start
StartAges == {0, SevenDays - 1, SevenDays, SevenDays + 1}
Downtimes == {1, SevenDays - 1, SevenDays}

\* loadAuthState: is the persisted state loaded (the alternative is clearAuthState)
LoadsAuthState(file) ==
  file # NoFile /\ file # CorruptFile /\ file.age < SevenDays

AuthSide == side = "auth"

\* the refresh timer of the AuthManager: its handle field and the armed timeouts
RefreshTimers == [timer |-> refreshTimer, armed |-> armedRefresh]

SetRefreshTimers(a) ==
  /\ refreshTimer' = a.timer
  /\ armedRefresh' = a.armed

\* clearRefreshTimer: clearTimeout(this.refreshTimer); this.refreshTimer = null
ClearRefreshTimer(a) ==
  IF a.timer = NoTimer THEN a
  ELSE [timer |-> NoTimer, armed |-> a.armed \ {a.timer}]

\* scheduleTokenRefresh: clearRefreshTimer(), then setTimeout(refreshToken, 45 min)
ScheduleTokenRefreshNoClear(a) ==
  LET h == CHOOSE n \in 1..(Cardinality(a.armed) + 2) : n \notin a.armed /\ n # a.timer
  IN [timer |-> h, armed |-> a.armed \cup {h}]
ScheduleTokenRefresh(a) ==
  LET c == ClearRefreshTimer(a)
      h == CHOOSE n \in 1..(Cardinality(c.armed) + 2) : n \notin c.armed /\ n # a.timer
  IN [timer |-> h, armed |-> c.armed \cup {h}]

\* AuthManager.initialize: loadAuthState
AuthInitialize ==
  /\ AuthSide
  /\ authStep = "boot"
  /\ LET load == LoadsAuthState(tokenFile)
     IN /\ currentToken' = IF load THEN tokenFile.token ELSE NoToken
        /\ tokenFile' = IF load THEN tokenFile ELSE NoFile
        /\ lastAuth' = [NoAuth EXCEPT
                          !.loaded = load,
                          !.hadFile = tokenFile # NoFile /\ tokenFile # CorruptFile,
                          !.ageAtLoad = IF tokenFile \in {NoFile, CorruptFile}
                                        THEN 0 ELSE tokenFile.age,
                          !.tokenAtLoad = IF load THEN tokenFile.token ELSE NoToken]
  /\ authStep' = "ready"
  /\ UNCHANGED <<currentUser, tokenSeq, restarts, refreshTimer, armedRefresh>>
  /\ UNCHANGED beyondAuth

\* authenticateWithInvitation up to its first await: the stored token is presented to
\* signInWithCustomToken when there is one, otherwise the invitation is sent
AuthenticateWithInvitation ==
  /\ AuthSide
  /\ authStep = "ready"
  /\ ~currentUser
  /\ IF currentToken # NoToken
     THEN /\ authStep' = "signingIn"
          /\ lastAuth' = [lastAuth EXCEPT !.storedTried = TRUE]
     ELSE /\ authStep' = "exchanging"
          /\ lastAuth' = [lastAuth EXCEPT !.exchanged = TRUE, !.fileAtExchange = tokenFile]
  /\ UNCHANGED <<tokenFile, currentToken, currentUser, tokenSeq, restarts, refreshTimer,
                 armedRefresh>>
  /\ UNCHANGED beyondAuth

\* signInWithCustomToken(stored token) settles; a rejection is caught with a warning and
\* the invitation is sent, a success is followed by refreshToken(). Every sign-in
\* reaches the onAuthStateChanged listener, which calls scheduleTokenRefresh()
StoredSignInSettles ==
  /\ AuthSide
  /\ authStep = "signingIn"
  /\ \E ok \in BOOLEAN :
       IF ok
       THEN /\ currentUser' = TRUE
            /\ authStep' = "refreshing"
            /\ lastAuth' = lastAuth
            /\ SetRefreshTimers(ScheduleTokenRefresh(RefreshTimers))
       ELSE /\ currentUser' = currentUser
            /\ authStep' = "exchanging"
            /\ lastAuth' = [lastAuth EXCEPT !.storedFailed = "signIn", !.exchanged = TRUE,
                                            !.fileAtExchange = tokenFile]
            /\ UNCHANGED <<refreshTimer, armedRefresh>>
  /\ UNCHANGED <<tokenFile, currentToken, tokenSeq, restarts>>
  /\ UNCHANGED beyondAuth

\* refreshToken() settles: success installs the new custom token and authentication is
\* done; failure answers success: false and the invitation is sent
StoredRefreshSettles ==
  /\ AuthSide
  /\ authStep = "refreshing"
  /\ \E ok \in BOOLEAN :
       IF ok
       THEN /\ currentToken' = tokenSeq + 1
            /\ tokenSeq' = tokenSeq + 1
            /\ authStep' = "done"
            /\ lastAuth' = [lastAuth EXCEPT !.outcome = "stored"]
            /\ SetRefreshTimers(ScheduleTokenRefresh(RefreshTimers))
       ELSE /\ currentToken' = currentToken
            /\ tokenSeq' = tokenSeq
            /\ authStep' = "exchanging"
            /\ lastAuth' = [lastAuth EXCEPT !.storedFailed = "refresh", !.exchanged = TRUE,
                                            !.fileAtExchange = tokenFile]
            /\ UNCHANGED <<refreshTimer, armedRefresh>>
  /\ UNCHANGED <<tokenFile, currentUser, restarts>>
  /\ UNCHANGED beyondAuth

\* the invitation exchange settles: success signs in, stores the new token and
\* saveAuthState writes the file; failure reaches the outer catch and clearAuthState
ExchangeSettles ==
  /\ AuthSide
  /\ authStep = "exchanging"
  /\ \E ok \in BOOLEAN :
       IF ok
       THEN /\ currentUser' = TRUE
            /\ currentToken' = tokenSeq + 1
            /\ tokenSeq' = tokenSeq + 1
            /\ tokenFile' = [kind |-> "state", token |-> tokenSeq + 1, age |-> 0]
            /\ lastAuth' = [lastAuth EXCEPT !.outcome = "invitation"]
            /\ SetRefreshTimers(ScheduleTokenRefresh(RefreshTimers))
       ELSE /\ currentUser' = currentUser
            /\ currentToken' = NoToken
            /\ tokenSeq' = tokenSeq
            /\ tokenFile' = NoFile
            /\ lastAuth' = [lastAuth EXCEPT !.outcome = "failed"]
            /\ UNCHANGED <<refreshTimer, armedRefresh>>
  /\ authStep' = "done"
  /\ UNCHANGED restarts
  /\ UNCHANGED beyondAuth

\* the process ends (process.exit(1) after a failed authentication, or a shutdown)
\* and is started again later: memory is fresh, the file has aged or was damaged
GatewayRestarts ==
  /\ AuthSide
  /\ authStep \in {"done", "stopped"}
  /\ restarts < MaxRestarts
  /\ restarts' = restarts + 1
  /\ \E d \in Downtimes, damaged \in BOOLEAN :
       tokenFile' = IF tokenFile = NoFile THEN NoFile
                    ELSE IF damaged THEN CorruptFile
                    ELSE [tokenFile EXCEPT !.age = @ + d]
  /\ currentToken' = NoToken
  /\ currentUser' = FALSE
  /\ authStep' = "boot"
  /\ refreshTimer' = NoTimer
  /\ armedRefresh' = {}
  /\ UNCHANGED <<tokenSeq, lastAuth>>
  /\ UNCHANGED beyondAuth

\* the armed timeout runs: "Scheduled token refresh triggered", refreshToken() up to
\* its first await
RefreshTimerFires ==
  /\ AuthSide
  /\ authStep = "done"
  /\ tokenSeq < MaxTokens
  /\ \E h \in armedRefresh : armedRefresh' = armedRefresh \ {h}
  /\ authStep' = "timerRefresh"
  /\ UNCHANGED <<tokenFile, currentToken, currentUser, tokenSeq, restarts, refreshTimer,
                 lastAuth>>
  /\ UNCHANGED beyondAuth

\* the scheduled refreshToken() settles: success installs the new custom token and
\* calls scheduleTokenRefresh(); failure is logged and answers success: false
TimerRefreshSettles ==
  /\ AuthSide
  /\ authStep = "timerRefresh"
  /\ \E ok \in BOOLEAN :
       IF ok /\ currentUser
       THEN /\ currentToken' = tokenSeq + 1
            /\ tokenSeq' = tokenSeq + 1
            /\ SetRefreshTimers(ScheduleTokenRefresh(RefreshTimers))
       ELSE UNCHANGED <<currentToken, tokenSeq, refreshTimer, armedRefresh>>
  /\ authStep' = "done"
  /\ UNCHANGED <<tokenFile, currentUser, restarts, lastAuth>>
  /\ UNCHANGED beyondAuth

\* AuthManager.shutdown: clearRefreshTimer(), then signOut() when a user is signed in
\* (auth.signOut, clearRefreshTimer, currentToken = null); the file is left alone
AuthShutdown ==
  /\ AuthSide
  /\ authStep = "done"
  /\ SetRefreshTimers(ClearRefreshTimer(RefreshTimers))
  /\ currentUser' = FALSE
  /\ currentToken' = IF currentUser THEN NoToken ELSE currentToken
  /\ authStep' = "stopped"
  /\ UNCHANGED <<tokenFile, tokenSeq, restarts, lastAuth>>
  /\ UNCHANGED beyondAuth

InitAuth ==
  /\ IngestorInit
  /\ RetryAtRest
  /\ GatewayAtRest(<< >>)
  /\ ConfigAtRest
  /\ side = "auth"
  /\ workload = NoWorkload
  /\ tokenFile \in {NoFile, CorruptFile} \cup [kind : {"state"}, token : {1}, age : StartAges]
  /\ currentToken = NoToken
  /\ currentUser = FALSE
  /\ authStep = "boot"
  /\ tokenSeq = 1
  /\ restarts = 0
  /\ refreshTimer = NoTimer
  /\ armedRefresh = {}
  /\ lastAuth = NoAuth

NextAuth ==
  \/ AuthInitialize
  \/ AuthenticateWithInvitation
  \/ StoredSignInSettles
  \/ StoredRefreshSettles
  \/ ExchangeSettles
  \/ RefreshTimerFires
  \/ TimerRefreshSettles
  \/ AuthShutdown
  \/ GatewayRestarts

SpecAuth == InitAuth /\ [][NextAuth]_vars

\* C26 as stated: a persisted state younger than 7 days is tried first (sign in,
\* then refresh); if either step fails the persisted state is cleared and the
\* invitation exchange follows; a persisted state of 7 days or older is cleared and
\* never used.
C26_StoredTokenFirstElseClearedFallback ==
  /\ (lastAuth.hadFile /\ lastAuth.ageAtLoad < SevenDays /\ authStep \notin {"boot", "ready"})
       => lastAuth.storedTried
  /\ (lastAuth.hadFile /\ lastAuth.ageAtLoad >= SevenDays /\ authStep # "boot")
       => ~lastAuth.loaded /\ ~lastAuth.storedTried /\ lastAuth.fileAtExchange = NoFile
  /\ lastAuth.storedFailed # "none"
       => lastAuth.exchanged /\ lastAuth.fileAtExchange = NoFile

\* C27 as stated: on shutdown the queue processors stop before the connection to
\* the durable store is closed: once the connection is closed or the process has
\* exited, no item that was taken from a queue is still in flight and none was
\* dropped: each was completed or put back.
C27_NothingInFlightWhenStoreCloses ==
  gwPhase \in {"closed", "exited"} =>
    /\ gwJobs = {}
    /\ \A k \in ItemKeys : gwFate[k] # "lost"

\* C28 as stated: both location-config endpoints answer 400 when companyId is
\* missing (also when the gateway is unauthenticated as well), 401 when the gateway
\* is not authenticated, 404 when the location document does not exist, 500 on any
\* other failure.
C28_StatusCodes ==
  lastReq.method # "none" =>
    lastReq.status = IF ~lastReq.hasCompanyId THEN 400
                     ELSE IF ~lastReq.authenticated THEN 401
                     ELSE IF lastReq.failed THEN 500
                     ELSE IF ~lastReq.docExists THEN 404
                     ELSE 200

\* ----- hostname grouping
\* the groups of the file that list a hostname, by position
ListedIn(cfg, hostname) ==
  {i \in 1..Len(cfg.groups) : hostname \in cfg.groups[i].hostnames}

FirstListed(cfg, hostname) ==
  CHOOSE i \in ListedIn(cfg, hostname) : \A j \in ListedIn(cfg, hostname) : i <= j

\* the resolver as the specification words it
ResolverAsSpecified(cfg, hostname) ==
  IF cfg.deduplicationGroup = "hostname" \/ ListedIn(cfg, hostname) = {}
  THEN hostname
  ELSE cfg.groups[FirstListed(cfg, hostname)].name

\* two readers are the same reader, or grouping is on and both are listed in a group
\* and resolve to the same one
SameGroupAsStated(cfg, a, b) ==
  \/ a = b
  \/ /\ cfg.deduplicationGroup # "hostname"
     /\ ListedIn(cfg, a) # {} /\ ListedIn(cfg, b) # {}
     /\ FirstListed(cfg, a) = FirstListed(cfg, b)

\* C29 as stated: the resolver returns the hostname in "hostname" mode, else the
\* first group listing the hostname, else the hostname; hence an observation joins
\* the open window of another reader only if both readers are in the same group,
\* and readers in different groups or in no group have independent windows.
C29_OnlySameGroupSharesWindow ==
  lastMsg.seq > 0 =>
    /\ lastMsg.key[1] = ResolverAsSpecified(hostnameGroups, lastMsg.doc.hostname)
    /\ lastMsg.mergedInto # NoTid
         => SameGroupAsStated(hostnameGroups, lastMsg.mergedInto, lastMsg.doc.hostname)

\* C29, amended: the resolver is as stated, and an observation is suppressed exactly
\* when a window is open for the same tid whose readers resolve to the same name as
\* the observing reader: readers listed in the same group share a window, and so
\* does a reader in no group whose hostname is the name another reader resolves to.
C29_WindowSharedIffSameResolvedName ==
  [][lastMsg'.seq = msgSeq + 1 =>
       LET hostname == lastMsg'.doc.hostname
           tidHex == lastMsg'.doc.tidHex
       IN /\ lastMsg'.key[1] = ResolverAsSpecified(hostnameGroups, hostname)
          /\ ~lastMsg'.srResult <=>
               \E k \in DOMAIN cache :
                 /\ cache[k].event.tidHex = tidHex
                 /\ ResolverAsSpecified(hostnameGroups, cache[k].event.hostname)
                      = ResolverAsSpecified(hostnameGroups, hostname)]_vars

\* two different readers listed in the same group shared a window
C29_Witness ==
  /\ lastMsg.mergedInto = "h1"
  /\ lastMsg.doc.hostname = "h2"
  /\ hostnameGroups.deduplicationGroup = "group"
  /\ ListedIn(hostnameGroups, "h1") # {}
  /\ ~lastMsg.srResult

\* C30: when the window of a key expires, the report callback is invoked exactly
\* once, with the event cached at that moment (the first event when the key was
\* observed only once), the entry is removed, and the next shouldReport for the key
\* returns true.
C30_ExpiryReportsOnceAndReopens ==
  [][(lastFire'.id # lastFire.id /\ lastFire'.called) =>
       LET key == lastFire'.key
       IN /\ lastFire'.event = cache[key].event
          /\ lastFire'.event.seq = win[key].lastObs
          /\ win[key].reports = 0 /\ win'[key].reports = 1
          /\ key \notin DOMAIN cache'
          /\ key \notin DOMAIN timers'
          /\ ShouldReportResult([cache |-> cache'], key)]_vars

\* a key observed once was reported with that one event when its window expired,
\* and the next observation of the key was admitted
C30_Witness ==
  /\ lastFire.called /\ lastFire.hits = 0
  /\ lastFire.event.seq = lastFire.expected
  /\ lastMsg.key = lastFire.key
  /\ lastMsg.srCalled /\ lastMsg.srResult
  /\ lastMsg.seq > lastFire.event.seq

\* C31 as stated: a delayed report is emitted at window end only for keys that had
\* additional observations inside the window; a key observed once yields the
\* immediate report only, so no event is forwarded twice.
C31_NoDelayedReportForSingleObservation ==
  (lastFire.called /\ lastFire.enqueued) => lastFire.hits > 0

\* C31, amended: at window end the report callback runs for every key still in the
\* cache, whatever the number of observations, and hands the cached event to the
\* queue; for a key observed once that is the event of the immediate report.
C31_DelayedReportForEveryCachedKey ==
  [][(lastFire'.id # lastFire.id /\ lastFire'.key \in DOMAIN cache) =>
       /\ lastFire'.called /\ lastFire'.enqueued
       /\ lastFire'.event = cache[lastFire'.key].event
       /\ win[lastFire'.key].hits = 0 => lastFire'.event.seq = win[lastFire'.key].lastObs
       /\ lastFire'.pushOk
            => rfidQueue' = <<QueueData(lastFire'.event.tidHex, lastFire'.event)>> \o rfidQueue]_vars

\* the queue holds the one event of a single-observation window twice: once from the
\* immediate report and once from the delayed report
C31_Witness ==
  /\ lastFire.called /\ lastFire.hits = 0 /\ lastFire.pushOk
  /\ \E i, j \in DOMAIN rfidQueue :
       /\ i < j
       /\ rfidQueue[i] = rfidQueue[j]
       /\ rfidQueue[i].tagDocument = lastFire.event

\* C32: a step that changes the deduplication interval to a different value m leaves
\* every key that was in the cache with exactly one armed timer, a new one that both
\* maps refer to and that fires m minutes after the change, and disarms every timer
\* that was armed before the change.
C32_IntervalChangeRecreatesTimers ==
  [][intervalMinutes' # intervalMinutes =>
       /\ \A k \in DOMAIN cache :
            /\ k \in DOMAIN cache' /\ k \in DOMAIN timers'
            /\ Cardinality(TimersOf(pending', k)) = 1
            /\ \A t \in TimersOf(pending', k) :
                 /\ t.fireAt = now + intervalMinutes'
                 /\ t.id = timers'[k]
                 /\ t.id > timerSeq
       /\ \A t \in pending : \A u \in pending' : u.id # t.id]_vars

C32_Witness ==
  /\ lastFire.called /\ lastFire.changed /\ lastFire.at # lastFire.dueAt
  /\ lastFire.key \notin DOMAIN cache
  /\ TimersOf(pending, lastFire.key) = {}

\* C33 as stated: when a key's timer fires, the entry and its timer are removed from
\* the Deduplicator before the report callback is invoked, so a shouldReport for
\* that key made from within the callback, or after it has returned, sees a miss.
C33_EntryRemovedBeforeCallback ==
  lastFire.called =>
    /\ ~lastFire.cachedAtCall
    /\ ~lastFire.timerAtCall
    /\ lastFire.missAtCall
    /\ lastFire.missAfter

\* ----- the Deduplicator over unbounded time
\* Times are kept relative to the present: `now` stays at LiveNow, a minute that
\* passes moves every fire time and lastConfigUpdate one minute back, and
\* lastConfigUpdate stops at 0, from where on every age exceeds the refresh interval.
\* Timer handles are opaque, so after each step they are renumbered by key. The
\* list of tag reads and the event payloads are not followed here, and msgSeq counts
\* the messages of the present minute (at most MaxMsgs arrive within one minute).
LiveNow == ConfigRefreshInterval + 1

\* a location whose deduplicateInterval is the default or longer than the refresh interval
LiveIntervals == {DefaultInterval, ConfigRefreshInterval + 2}
LiveConfigs ==
  [deduplicate : BOOLEAN, deduplicateInterval : LiveIntervals, reporting : BOOLEAN]

KeyHandle ==
  CHOOSE f \in [AllKeys -> 1..Cardinality(AllKeys)] :
    \A a, b \in AllKeys : a # b => f[a] # f[b]

Renumber(d) ==
  [d EXCEPT !.pending = {[t EXCEPT !.id = KeyHandle[t.key]] : t \in @},
            !.timers = [k \in DOMAIN @ |-> KeyHandle[k]],
            !.cache = [k \in DOMAIN @ |-> [@[k] EXCEPT !.timer = KeyHandle[k]]],
            !.timerSeq = Cardinality(AllKeys)]

MinuteLater(d) ==
  [d EXCEPT !.pending = {[t EXCEPT !.fireAt = @ - 1] : t \in @}]

historyOfWindows == <<rfidQueue, messageCounter, redisUp, win, lastMsg, lastFire,
                      cleanedIds, lastCleanup, lastAccepted>>

\* TagProcessingServer.start
LiveStart ==
  /\ phase = "constructed"
  /\ \E ok \in BOOLEAN, cfg \in LiveConfigs :
       LET st == LoadOutcome(ok, cfg)
       IN /\ state' = st
          /\ lastConfigUpdate' = IF ok THEN now ELSE lastConfigUpdate
          /\ SetDedup(Renumber(UpdateInterval(Dedup, st.deduplicateInterval, now)))
  /\ phase' = "running"
  /\ UNCHANGED <<now, isShuttingDown, hostnameGroups, loads, msgSeq, historyOfWindows,
                 queueVars>>

\* processTagInventory for a message that carries a tidHex
LiveMessage ==
  /\ phase = "running"
  /\ ~isShuttingDown
  /\ msgSeq < MaxMsgs
  /\ msgSeq' = msgSeq + 1
  /\ \E hostname \in Hosts, tidHex \in Tids :
       LET tagDocument == CreateTagDocument(hostname, tidHex, 0)
           refresh == ShouldRefresh(lastConfigUpdate, now)
           st == GetState(state)
           key == GetDeduplicationKey(hostnameGroups, hostname, tidHex)
           d1 == IF ConsultsDeduplicator(st.deduplicate)
                 THEN ShouldReport(Dedup, 0, key, tagDocument, now)
                 ELSE Dedup
           d2 == IF refresh THEN d1 ELSE UpdateInterval(d1, st.deduplicateInterval, now)
       IN /\ refresh => loads < MaxLoads
          /\ loads' = IF refresh THEN loads + 1 ELSE loads
          /\ SetDedup(Renumber(d2))
  /\ UNCHANGED <<now, phase, isShuttingDown, hostnameGroups, state, lastConfigUpdate,
                 historyOfWindows, queueVars>>

\* a loadFromGateway settles, then the .then() of processTagInventory runs updateInterval
LiveLoadSettles ==
  /\ loads > 0
  /\ \E ok \in BOOLEAN, cfg \in LiveConfigs :
       LET st == LoadOutcome(ok, cfg)
       IN /\ state' = st
          /\ lastConfigUpdate' = IF ok THEN now ELSE lastConfigUpdate
          /\ SetDedup(Renumber(UpdateInterval(Dedup, st.deduplicateInterval, now)))
  /\ loads' = loads - 1
  /\ UNCHANGED <<now, phase, isShuttingDown, hostnameGroups, msgSeq, historyOfWindows,
                 queueVars>>

\* a due setTimeout callback runs reportCached(key)
LiveTimerFires ==
  /\ \E t \in pending :
       /\ t.fireAt <= now
       /\ SetDedup(ReportCached([Dedup EXCEPT !.pending = @ \ {t}], t.key))
  /\ UNCHANGED <<now, phase, isShuttingDown, hostnameGroups, state, lastConfigUpdate,
                 loads, msgSeq, historyOfWindows, queueVars>>

\* mqttClient.disconnect() -> deduplicator.cleanup()
LiveDisconnect ==
  /\ phase = "running"
  /\ ~isShuttingDown
  /\ isShuttingDown' = TRUE
  /\ SetDedup(Cleanup(Dedup))
  /\ UNCHANGED <<now, phase, hostnameGroups, state, lastConfigUpdate, loads, msgSeq,
                 historyOfWindows, queueVars>>

\* a minute passes
LiveTick ==
  /\ phase = "running"
  /\ loads = 0
  /\ \A t \in pending : t.fireAt > now
  /\ SetDedup(MinuteLater(Dedup))
  /\ lastConfigUpdate' = IF lastConfigUpdate = NoUpdate \/ lastConfigUpdate = 0
                         THEN lastConfigUpdate
                         ELSE lastConfigUpdate - 1
  /\ msgSeq' = 0
  /\ UNCHANGED <<now, phase, isShuttingDown, hostnameGroups, state, loads,
                 historyOfWindows, queueVars>>

InitLive ==
  /\ phase = "constructed"
  /\ now = LiveNow
  /\ isShuttingDown = FALSE
  /\ hostnameGroups \in HostnameGroupFiles
  /\ state = ConstructorState
  /\ lastConfigUpdate = NoUpdate
  /\ loads = 0
  /\ intervalMinutes = DeduplicatorInitialInterval
  /\ cache = EmptyMap
  /\ timers = EmptyMap
  /\ pending = {}
  /\ timerSeq = Cardinality(AllKeys)
  /\ rfidQueue = << >>
  /\ messageCounter = 0
  /\ msgSeq = 0
  /\ redisUp = TRUE
  /\ win = [k \in AllKeys |-> NoWindow]
  /\ lastMsg = NoMsg
  /\ lastFire = NoFire
  /\ cleanedIds = {}
  /\ lastCleanup = NoCleanup
  /\ lastAccepted = NoData
  /\ lastBad = NoBad
  /\ side = "ingestor"
  /\ workload = NoWorkload
  /\ RetryAtRest
  /\ GatewayAtRest(<< >>)
  /\ ServicesAtRest

NextLive ==
  \/ LiveStart
  \/ LiveMessage
  \/ LiveLoadSettles
  \/ LiveTimerFires
  \/ LiveDisconnect
  \/ LiveTick

\* Node runs a due timer callback and settles every request (axios timeout 5000 ms);
\* the clock advances whenever nothing is due
SpecLive ==
  /\ InitLive
  /\ [][NextLive]_vars
  /\ WF_vars(LiveTimerFires)
  /\ WF_vars(LiveLoadSettles)
  /\ WF_vars(LiveTick)

\* C34 as stated: every key that enters the cache is eventually removed from it again
\* (by its timer firing, which emits the delayed report, or by cleanup()), whatever
\* hits and interval changes follow.
C34_EveryCachedKeyEventuallyReported ==
  \A k \in AllKeys : (k \in DOMAIN cache) ~> (k \notin DOMAIN cache)

\* C35: updateInterval called with the value the Deduplicator already has changes
\* nothing. When a load settles with that value, the interval, the cache, the timer
\* map, the armed timers and the handle counter are as before; after a tag message
\* that starts no load (the call follows the message's own shouldReport), the interval
\* is as before and every key that was cached keeps its handle, its armed timer and
\* fire time, and, unless it is the message's key, its entry.
C35_SameIntervalIsNoOp ==
  [][/\ (loads' = loads - 1 /\ state'.deduplicateInterval = intervalMinutes)
          => UNCHANGED dedupVars
     /\ (lastMsg'.seq = msgSeq + 1 /\ lastMsg'.hasTid /\ loads' = loads
          /\ state.deduplicateInterval = intervalMinutes) =>
          /\ intervalMinutes' = intervalMinutes
          /\ \A k \in DOMAIN cache :
               /\ k \in DOMAIN cache' /\ k \in DOMAIN timers'
               /\ timers'[k] = timers[k]
               /\ cache'[k].timer = cache[k].timer
               /\ TimersOf(pending', k) = TimersOf(pending, k)
               /\ k # lastMsg'.key => cache'[k] = cache[k]
          /\ \A t \in pending' : t \in pending \/ (t.key = lastMsg'.key /\ ~lastMsg'.wasCached)]_vars

C35_Witness ==
  /\ lastMsg.seq >= 2 /\ lastMsg.wasCached /\ lastMsg.srCalled
  /\ ~ShouldRefresh(lastConfigUpdate, now) /\ loads = 0
  /\ state.deduplicateInterval = intervalMinutes
  /\ TimersOf(pending, lastMsg.key) = lastMsg.timersBefore
  /\ lastMsg.timersBefore # {}
  /\ ~win[lastMsg.key].changed
  /\ Cardinality(DOMAIN cache) = 2

\* the chains of processRetryQueue that are scheduled (their setTimeout is armed) or
\* running; an armed 5 s restart is a call of startProcessing still to come
ActiveLoops == {l \in loops : l.pc # "restart"}

AtMostOneActiveLoop == ProcessorSide => Cardinality(ActiveLoops) <= 1
FlagMatchesLoops == ProcessorSide => (isProcessing <=> ActiveLoops # {})

\* C36 as stated: at most one retry-processing loop of the processor's retry queue
\* is scheduled or running at any time, and isProcessing is true exactly while one
\* is, whatever the interleaving of enqueues, loop errors and shutdown.
C36_OneLoopAndFlagAgree ==
  /\ AtMostOneActiveLoop
  /\ FlagMatchesLoops

AtMostOneRefreshTimer == Cardinality(armedRefresh) <= 1

\* C37 as stated: while the gateway is signed in and no refresh attempt is in
\* flight, exactly one token-refresh timer is armed, also after a scheduled refresh
\* attempt has failed, so that a failed refresh is followed by another attempt.
C37_OneRefreshTimerWhileSignedIn ==
  (AuthSide /\ currentUser /\ authStep = "done") => Cardinality(armedRefresh) = 1

\* the persisted auth state holds the token the AuthManager holds, or neither exists
DiskMatchesMemory ==
  IF currentToken = NoToken
  THEN tokenFile = NoFile
  ELSE tokenFile.kind = "state" /\ tokenFile.token = currentToken

PersistedWhileRunning == (AuthSide /\ authStep = "done") => DiskMatchesMemory

\* C38 as stated: once authentication has settled, and after any later scheduled
\* refresh or sign-out, the token in the persisted auth state is the token the
\* AuthManager holds in memory, or both are absent.
C38_PersistedTokenIsCurrentToken ==
  (AuthSide /\ authStep \in {"done", "stopped"}) => DiskMatchesMemory

\* C39 as stated: at most one loadFromGateway call is in flight at any time: a tag
\* message never starts a load while one is pending, also after a failed load.
C39_OneConfigLoadInFlight ==
  (side = "ingestor" /\ phase = "running") => loads <= 1

\* C40 as stated: the configuration a GET returns is that of the location the
\* request names: two successive authenticated requests that are answered with a
\* configuration and name different locations are not served from the same
\* location document, and each is served from the document it names.
C40_ConfigDependsOnRequestedLocation ==
  [][(lastReq'.method = "GET" /\ lastReq'.status = 200) =>
       /\ lastReq'.servedFrom = lastReq'.requested
       /\ (lastReq.method = "GET" /\ lastReq.status = 200
            /\ lastReq.requested # lastReq'.requested)
            => lastReq'.servedFrom # lastReq.servedFrom]_vars

====
